---- MODULE Spec2Model ----
(***************************************************************************)
(* A model of the QA runner: the job registry and its two HTTP handlers    *)
(* (src/src/app.js) and the test pipeline runQATest with executeActions,   *)
(* pollForContent and verifyOutcome (src/src/ai.js).                        *)
(*                                                                         *)
(* Every await of the pipeline is a step of the run; what the browser, the *)
(* page and the reasoning service answer is chosen by the environment.     *)
(***************************************************************************)
EXTENDS Integers, Sequences, FiniteSets, TLC

\* ------------------------------------------------------------------ bounds
MaxRuns == 2        \* run identifiers that exist (uuidv4 values)
MaxPlanLen == 2     \* longest ActionPlan the reasoning service returns
MaxResults == 2     \* longest execution log handed to verifyOutcome on its own
TickMs == 1000      \* granularity of the wall clock seen by the poller
MaxTicks == 3       \* clock ticks during the steps of one run
MaxExtraGroups == 1 \* how far a candidate's number of groups is from 4 and 8
MaxWaitSeconds == 60 \* the largest settle time a request configures, in seconds

\* ------------------------------------------------------- program constants
PollTimeoutMs == 30000
PollIntervalMs == 2000
DefaultWaitSeconds == 10

Runs == 1..MaxRuns

\* ------------------------------------------------------------------- state
VARIABLES
    apiKey,         \* process.env.ARCADE_AI_API_KEY is set
    resultsStore,   \* app.js resultsStore: id -> record
    submitted,      \* identifiers handed out by POST /api/analyze-workflow
    response,       \* the last HTTP response sent
    pc,             \* position of each run in runQATest
    request,        \* {instructions, options} of each run
    browser,        \* "none" | "open" | "closed"
    closeCalls,     \* number of browser.close() calls of each run
    stages,         \* the pipeline stages each run has started, in order
    screenshots,    \* the Evidence sequence of each run
    plan,           \* aiAnalysis.actions of each run
    idx,            \* position of the for loop of executeActions
    inflight,       \* actions of the plan being handled right now
    attempts,       \* how often each action of the plan was started
    results,        \* the results array of executeActions
    origins,        \* for each result, the position in the plan of its action
    dispatched,     \* the case of the switch each started action went to
    verification,   \* what verifyOutcome returned
    aiCalls,        \* calls of the reasoning service: [plan, verify]
    outcome,        \* how the promise of runQATest settles
    clock,          \* Date.now(), in milliseconds
    pollPc,         \* position of pollForContent
    startTime,      \* pollForContent's startTime
    wakeAt,         \* when the waitForTimeout of the poller is due
    pageText,       \* the trimmed text of the polled element, null without element
    changedAt,      \* when the element's text became an accepted one, -1 before
    lastRead,       \* the content of the poller's last read
    readAt,         \* when the poller made its last read, -1 before
    pollResult,     \* what pollForContent returned
    candidate,      \* the string handed to the address validator, by its pieces
    isValid,        \* what the validator answered: "none" before
    waitTime,       \* options.waitTime of a request
    waited          \* the milliseconds the settle wait was called with, -1 before

runVars == <<pc, request, browser, closeCalls, stages, screenshots, plan, idx,
             inflight, attempts, results, origins, dispatched, verification, aiCalls,
             outcome>>
httpVars == <<apiKey, resultsStore, submitted, response>>
pollVars ==
    <<clock, pollPc, startTime, wakeAt, pageText, changedAt, lastRead, readAt, pollResult>>
addrVars == <<candidate, isValid>>
waitVars == <<waitTime, waited>>
unitVars == <<addrVars, waitVars>>
vars == <<httpVars, runVars, pollVars, unitVars>>

\* ----------------------------------------------------------------- strings
\* Strings are atomic values of the state; Chars gives the characters of the
\* ones the model uses, for the operations that look inside a string.
CharsOf ==
    ("" :> <<>>)
      @@ ("#ipv4-head" :> <<"#", "i", "p", "v", "4", "-", "h", "e", "a", "d">>)
      @@ (".ip-row" :> <<".", "i", "p", "-", "r", "o", "w">>)
      @@ (".g" :> <<".", "g">>)
      @@ ("h1" :> <<"h", "1">>)
      @@ ("#go" :> <<"#", "g", "o">>)
      @@ ("page" :> <<"p", "a", "g", "e">>)
      @@ ("Detecting..." :> <<"D", "e", "t", "e", "c", "t", "i", "n", "g", ".", ".", ".">>)
      @@ ("203.0.113.5" :> <<"2", "0", "3", ".", "0", ".", "1", "1", "3", ".", "5">>)
      @@ ("My Public IPv4: 203.0.113.5" :> <<"M", "y", " ", "P", "u", "b", "l", "i", "c", " ", "I", "P", "v", "4", ":", " ", "2", "0", "3", ".", "0", ".", "1", "1", "3", ".", "5">>)
      @@ ("999.1.1.1" :> <<"9", "9", "9", ".", "1", ".", "1", ".", "1">>)
      @@ ("Welcome" :> <<"W", "e", "l", "c", "o", "m", "e">>)
      @@ ("find the IP address" :> <<"f", "i", "n", "d", " ", "t", "h", "e", " ", "I", "P", " ", "a", "d", "d", "r", "e", "s", "s">>)
      @@ ("search for bob" :> <<"s", "e", "a", "r", "c", "h", " ", "f", "o", "r", " ", "b", "o", "b">>)
      @@ ("take a screenshot" :> <<"t", "a", "k", "e", " ", "a", " ", "s", "c", "r", "e", "e", "n", "s", "h", "o", "t">>)
      @@ ("sign up" :> <<"s", "i", "g", "n", " ", "u", "p">>)
      @@ ("Search my IP address" :> <<"S", "e", "a", "r", "c", "h", " ", "m", "y", " ", "I", "P", " ", "a", "d", "d", "r", "e", "s", "s">>)
      @@ ("ip address" :> <<"i", "p", " ", "a", "d", "d", "r", "e", "s", "s">>)
      @@ ("search" :> <<"s", "e", "a", "r", "c", "h">>)
      @@ ("screenshot" :> <<"s", "c", "r", "e", "e", "n", "s", "h", "o", "t">>)
      @@ ("ipv4" :> <<"i", "p", "v", "4">>)
      @@ ("ip" :> <<"i", "p">>)
      @@ ("Welcome back" :> <<"W", "e", "l", "c", "o", "m", "e", " ", "b", "a", "c", "k">>)
      @@ ("Error: try again" :> <<"E", "r", "r", "o", "r", ":", " ", "t", "r", "y", " ", "a", "g", "a", "i", "n">>)
      @@ ("Example Domain" :> <<"E", "x", "a", "m", "p", "l", "e", " ", "D", "o", "m", "a", "i", "n">>)
      @@ ("welcome" :> <<"w", "e", "l", "c", "o", "m", "e">>)
      @@ ("success" :> <<"s", "u", "c", "c", "e", "s", "s">>)
      @@ ("account created" :> <<"a", "c", "c", "o", "u", "n", "t", " ", "c", "r", "e", "a", "t", "e", "d">>)
      @@ ("signed up" :> <<"s", "i", "g", "n", "e", "d", " ", "u", "p">>)
      @@ ("thank you" :> <<"t", "h", "a", "n", "k", " ", "y", "o", "u">>)
      @@ ("error" :> <<"e", "r", "r", "o", "r">>)
      @@ ("failed" :> <<"f", "a", "i", "l", "e", "d">>)
      @@ ("invalid" :> <<"i", "n", "v", "a", "l", "i", "d">>)
      @@ ("try again" :> <<"t", "r", "y", " ", "a", "g", "a", "i", "n">>)
Texts == DOMAIN CharsOf
Chars(s) == CharsOf[s]

RECURSIVE Str(_)
Str(chars) == IF chars = <<>> THEN "" ELSE Head(chars) \o Str(Tail(chars))

\* String.prototype.includes
Includes(hay, needle) ==
    \E i \in 0..(Len(hay) - Len(needle)) :
        SubSeq(hay, i + 1, i + Len(needle)) = needle

LowerCaseOf ==
    ("A" :> "a") @@ ("B" :> "b") @@ ("C" :> "c") @@ ("D" :> "d") @@ ("E" :> "e") @@ ("F" :> "f")
      @@ ("G" :> "g") @@ ("H" :> "h") @@ ("I" :> "i") @@ ("J" :> "j") @@ ("K" :> "k") @@ ("L" :> "l")
      @@ ("M" :> "m") @@ ("N" :> "n") @@ ("O" :> "o") @@ ("P" :> "p") @@ ("Q" :> "q") @@ ("R" :> "r")
      @@ ("S" :> "s") @@ ("T" :> "t") @@ ("U" :> "u") @@ ("V" :> "v") @@ ("W" :> "w") @@ ("X" :> "x")
      @@ ("Y" :> "y") @@ ("Z" :> "z")
Lower(ch) == IF ch \in DOMAIN LowerCaseOf THEN LowerCaseOf[ch] ELSE ch

\* String.prototype.toLowerCase
ToLowerCase(chars) == [i \in 1..Len(chars) |-> Lower(chars[i])]

\* String.prototype.trim
RECURSIVE TrimStart(_)
TrimStart(chars) ==
    IF chars # <<>> /\ Head(chars) = " " THEN TrimStart(Tail(chars)) ELSE chars
RECURSIVE TrimEnd(_)
TrimEnd(chars) ==
    IF chars # <<>> /\ chars[Len(chars)] = " "
    THEN TrimEnd(SubSeq(chars, 1, Len(chars) - 1)) ELSE chars
Trim(chars) == TrimEnd(TrimStart(chars))

\* The string tests of the program, computed once for the strings of the
\* model: s.includes(k) and s.toLowerCase().includes(k).
Needles ==
    {"ip", "ipv4", "Detecting...", "ip address", "search", "screenshot",
     "welcome", "success", "account created", "signed up", "thank you",
     "error", "failed", "invalid", "try again"}
IncludedIn == [s \in Texts |-> {k \in Needles : Includes(Chars(s), Chars(k))}]
IncludedInLower ==
    [s \in Texts |-> {k \in Needles : Includes(ToLowerCase(Chars(s)), Chars(k))}]
TextIncludes(s, k) == k \in IncludedIn[s]
LowerTextIncludes(s, k) == k \in IncludedInLower[s]

\* ------------------------------------------------ verifyOutcome: addresses
Digits == {"0", "1", "2", "3", "4", "5", "6", "7", "8", "9"}
HexDigits == Digits \cup {"a", "b", "c", "d", "e", "f", "A", "B", "C", "D", "E", "F"}

\* the pieces of chars between the occurrences of sep
RECURSIVE SplitFrom(_, _, _)
SplitFrom(chars, sep, piece) ==
    IF chars = <<>> THEN <<piece>>
    ELSE IF Head(chars) = sep
         THEN <<piece>> \o SplitFrom(Tail(chars), sep, <<>>)
         ELSE SplitFrom(Tail(chars), sep, Append(piece, Head(chars)))
Split(chars, sep) == SplitFrom(chars, sep, <<>>)

\* faulty variant: [0-9]{1,3} in place of the three alternatives
OctetAnyThreeDigits(g) ==
    /\ \A i \in 1..Len(g) : g[i] \in Digits
    /\ Len(g) \in {1, 2, 3}

\* 25[0-5]|2[0-4][0-9]|[01]?[0-9][0-9]?
Octet(g) ==
    /\ \A i \in 1..Len(g) : g[i] \in Digits
    /\ \/ Len(g) \in {1, 2}
       \/ Len(g) = 3 /\ g[1] \in {"0", "1"}
       \/ Len(g) = 3 /\ g[1] = "2" /\ g[2] \in {"0", "1", "2", "3", "4"}
       \/ Len(g) = 3 /\ g[1] = "2" /\ g[2] = "5"
                     /\ g[3] \in {"0", "1", "2", "3", "4", "5"}

\* ipRegex.ipv4.test
Ipv4Test(chars) ==
    LET parts == Split(chars, ".")
    IN  Len(parts) = 4 /\ \A i \in 1..4 : Octet(parts[i])

\* ipRegex.ipv6.test
Ipv6Test(chars) ==
    LET parts == Split(chars, ":")
    IN  /\ Len(parts) = 8
        /\ \A i \in 1..8 : /\ Len(parts[i]) \in 1..4
                           /\ \A j \in 1..Len(parts[i]) : parts[i][j] \in HexDigits

\* data.replace(/My Public IPv[4|6]:/, ''): the first match is removed
LabelStem == <<"M", "y", " ", "P", "u", "b", "l", "i", "c", " ", "I", "P", "v">>
LabelAt(chars, i) ==
    /\ i + Len(LabelStem) + 2 <= Len(chars) + 1
    /\ SubSeq(chars, i, i + Len(LabelStem) - 1) = LabelStem
    /\ chars[i + Len(LabelStem)] \in {"4", "|", "6"}
    /\ chars[i + Len(LabelStem) + 1] = ":"
StripLabel(chars) ==
    LET at == {i \in 1..Len(chars) : LabelAt(chars, i)}
    IN  IF at = {} THEN chars
        ELSE LET i == CHOOSE k \in at : \A m \in at : k <= m
             IN  SubSeq(chars, 1, i - 1)
                   \o SubSeq(chars, i + Len(LabelStem) + 2, Len(chars))

\* ---------------------------------------------------------- the settle wait
\* what options.waitTime can hold: nothing, the NaN the page sends for an
\* empty field, or a number of seconds
Undefined == [kind |-> "undefined", n |-> 0]
NotANumber == [kind |-> "NaN", n |-> 0]
Seconds(k) == [kind |-> "number", n |-> k]
WaitTimes == {Undefined, NotANumber} \cup {Seconds(k) : k \in 0..MaxWaitSeconds}

\* JavaScript falsiness of such a value: undefined, NaN and 0
Falsy(w) == w.kind # "number" \/ w.n = 0

\* (options.waitTime || 10) * 1000
SettleDelay(w) == (IF Falsy(w) THEN DefaultWaitSeconds ELSE w.n) * 1000

\* -------------------------------------------------------------- data model
\* an Action of the plan: {type, target, value}; value "" is null or absent
Action(type, target, value) == [type |-> type, target |-> target, value |-> value]

\* the actions a plan of the model is made of
ActionSet ==
    { Action("click", "#go", ""),
      Action("wait", "#ipv4-head", "visible"),
      Action("extract", "#ipv4-head", "text"),
      Action("extract", "h1", "text"),
      Action("extract", ".g", "list"),
      Action("extract", ".ip-row", "list"),
      Action("screenshot", "page", ""),
      Action("type", "#q", "bob"),
      Action("hover", "#go", "") }

\* the ActionPlans over a set of actions
PlansOver(actions) == UNION {[1..n -> actions] : n \in 0..MaxPlanLen}
Plans == PlansOver(ActionSet)

\* the actions of the plans of the whole-run specification
PipelineActions ==
    { Action("extract", ".g", "list"),
      Action("screenshot", "page", "") }
PipelinePlans == PlansOver(PipelineActions)

\* what a result's data holds: nothing, null, a string, an array of n items
NoData == [kind |-> "undefined", text |-> "", items |-> 0]
NullData == [kind |-> "null", text |-> "", items |-> 0]
TextData(s) == [kind |-> "text", text |-> s, items |-> 0]
ListData(n) == [kind |-> "list", text |-> "", items |-> n]

\* JavaScript truthiness of a data value: an array is truthy even when empty
Truthy(d) == d.kind = "list" \/ (d.kind = "text" /\ d.text # "")

\* the requests a client submits
InstructionTexts ==
    {"find the IP address", "search for bob", "take a screenshot", "sign up",
     "Search my IP address"}
RequestsWith(texts) ==
    [instructions : texts, options : [screenshots : BOOLEAN]]
Requests == RequestsWith(InstructionTexts)

\* the requests of the whole-run specification
PipelineRequests == RequestsWith({"search for bob", "sign up"})

\* what the environment answers: the texts an element of the page can hold
ElementTexts(target) ==
    IF target = "#ipv4-head"
    THEN {"Detecting...", "203.0.113.5", "My Public IPv4: 203.0.113.5", "999.1.1.1"}
    ELSE {"", "Example Domain"}
ListSizes == {0, 2}
PageBodies == {"Welcome back", "Error: try again", "Example Domain"}
ThrownMessage == "Timeout exceeded"

\* --------------------------------------------------------- executeActions
KnownTypes ==
    {"click", "fill", "type", "select", "submit", "extract", "wait", "navigate",
     "screenshot"}

\* faulty variant: the switch has no case 'type'
DispatchWithoutAlias(action) ==
    IF action.type \in KnownTypes \ {"type"} THEN action.type ELSE "default"

\* switch (action.type): the case the action goes to; 'fill' and 'type' share
\* one body
Dispatch(action) ==
    IF action.type \notin KnownTypes THEN "default"
    ELSE IF action.type = "type" THEN "fill"
    ELSE action.type

\* what the body of a case calls before it pushes its result: page methods,
\* or pollForContent
PageCalls(case, action) ==
    CASE case \in {"click", "select"} -> <<"waitForSelector", case>>
      [] case = "fill" -> <<"waitForSelector", "type">>
      [] case = "submit" -> <<"waitForSelector", "evaluate">>
      [] case = "extract" ->
            IF action.value # "list" /\ TextIncludes(action.target, "ip")
            THEN <<"pollForContent">> ELSE <<"evaluate">>
      [] case = "wait" -> IF action.value = "visible" THEN <<"waitForSelector">>
                          ELSE <<"waitForTimeout">>
      [] case = "navigate" -> <<"goto">>
      [] case = "screenshot" -> <<"screenshot">>
      [] OTHER -> <<>>

\* what the loop does with the action at position i
Taken(i, action) ==
    [index |-> i, case |-> Dispatch(action),
     methods |-> PageCalls(Dispatch(action), action)]

\* pollForContent accepts a read (the test of its if)
PollAccepts(content) ==
    /\ content.kind = "text"
    /\ content.text # ""
    /\ ~TextIncludes(content.text, "Detecting...")

\* what one read of an element's trimmed text can give: null without element
ReadResults(target) == {NullData} \cup {TextData(t) : t \in ElementTexts(target)}

\* what pollForContent can return: an accepted read, or null at the timeout
PollResults(target) == {NullData} \cup {d \in ReadResults(target) : PollAccepts(d)}

\* takeScreenshot's return value
ScreenshotPath(name, timestamp) ==
    "/screenshots/screenshot_" \o name \o "_" \o ToString(timestamp) \o ".png"

\* faulty variant: the value of the action is not used as the identifier
ShotNameAlwaysAction(action) == "action"

\* action.value || 'action'
ShotName(action) == IF action.value # "" THEN action.value ELSE "action"

\* How the handling of one action can go before the pause: the browser call
\* throws, or it returns (with the data an extract read).
Outcomes(action) ==
    IF Dispatch(action) = "default"
    THEN {[threw |-> FALSE, data |-> NoData]}
    ELSE {[threw |-> TRUE, data |-> NoData]} \cup
         IF action.type # "extract"
         THEN {[threw |-> FALSE, data |-> NoData]}
         ELSE IF action.value = "list"
         THEN {[threw |-> FALSE, data |-> ListData(n)] : n \in ListSizes}
         ELSE IF TextIncludes(action.target, "ip")
         THEN {[threw |-> FALSE, data |-> d] : d \in PollResults(action.target)}
         ELSE {[threw |-> FALSE, data |-> d] : d \in ReadResults(action.target)}

\* faulty variant: the extract cases push their result without the data
HandledDropsData(action, o, now) ==
    IF Dispatch(action) = "default"
    THEN [action |-> action, status |-> "skipped", reason |-> "Unknown action type"]
    ELSE IF action.type = "extract" /\ action.value = "list"
    THEN [action |-> action,
          status |-> IF o.data.items # 0 THEN "success" ELSE "failed"]
    ELSE IF action.type = "extract"
    THEN [action |-> action,
          status |-> IF Truthy(o.data) THEN "success" ELSE "failed"]
    ELSE IF action.type = "screenshot"
    THEN [action |-> action, status |-> "success",
          data |-> TextData(ScreenshotPath(ShotName(action), now))]
    ELSE [action |-> action, status |-> "success"]

\* the result the switch pushes when nothing was thrown
Handled(action, o, now) ==
    IF Dispatch(action) = "default"
    THEN [action |-> action, status |-> "skipped", reason |-> "Unknown action type"]
    ELSE IF action.type = "extract" /\ action.value = "list"
    THEN [action |-> action,
          status |-> IF o.data.items # 0 THEN "success" ELSE "failed",
          data |-> o.data]
    ELSE IF action.type = "extract"
    THEN [action |-> action,
          status |-> IF Truthy(o.data) THEN "success" ELSE "failed",
          data |-> o.data]
    ELSE IF action.type = "screenshot"
    THEN [action |-> action, status |-> "success",
          data |-> TextData(ScreenshotPath(ShotName(action), now))]
    ELSE [action |-> action, status |-> "success"]

\* the result the catch pushes
Caught(action, message) ==
    [action |-> action, status |-> "failed", error |-> message]

\* the message of what a failing action throws; takeScreenshot wraps it
ActionError(action) ==
    IF action.type = "screenshot"
    THEN "Failed to take screenshot: " \o ThrownMessage
    ELSE ThrownMessage

\* the Evidence entry a screenshot pushes
Evidence(id, now) == [id |-> id, timestamp |-> now, path |-> ScreenshotPath(id, now)]

\* faulty variant: the catch leaves the loop
AfterCatchBreaks(i, n) == n + 1

\* the loop index after the catch: the for loop goes on with the next action
AfterCatch(i, n) == i + 1

\* the loop takes its next action when the previous one and its pause are over
LoopReady(position) == position = "exec"

\* result.data, undefined when the result has no such property
DataOf(r) == IF "data" \in DOMAIN r THEN r.data ELSE NoData

\* ----------------------------------------------------------- verifyOutcome
successIndicators ==
    {"welcome", "success", "account created", "signed up", "thank you", "ip address"}
errorIndicators == {"error", "failed", "invalid", "try again"}

\* actionResults.filter(result => result.action.type === t)
ResultsOfType(actionResults, t) ==
    SelectSeq(actionResults, LAMBDA r : r.action.type = t)

\* Array.prototype.find: of the indices whose element has the predicate, the
\* first one, 0 for none
Find(hits) ==
    IF hits = {} THEN 0 ELSE CHOOSE i \in hits : \A j \in hits : i <= j

\* the predicate of the find of the "ip address" branch
IsIpData(r) ==
    /\ Truthy(DataOf(r))
    /\ \/ TextIncludes(r.action.target, "ipv4")
       \/ TextIncludes(r.action.target, "ip")

IsListExtract(r) == r.action.value = "list"

\* instructions.toLowerCase().includes(phrase)
Mentions(instructions, phrase) == LowerTextIncludes(instructions, phrase)

\* indicators.some(indicator => pageContent.includes(indicator))
BodyHas(body, indicators) ==
    \E w \in indicators : LowerTextIncludes(body, w)

Verdict(success, message, branch, asked) ==
    [threw |-> FALSE, success |-> success, message |-> message,
     branch |-> branch, asked |-> asked]
Thrown(message, asked) ==
    [threw |-> TRUE, success |-> FALSE, message |-> message, branch |-> 0,
     asked |-> asked]

\* The answers of the page and of the reasoning service to one verification:
\* bodyOk: reading document.body succeeds, body: its text,
\* titleOk: page.title() succeeds, aiOk: the service answers with JSON that
\* parses, aiSuccess/aiMessage: its answer.
VerifyEnv(bodyOk, body, titleOk, aiOk, aiSuccess) ==
    [bodyOk |-> bodyOk, body |-> body, titleOk |-> titleOk, aiOk |-> aiOk,
     aiSuccess |-> aiSuccess]
VerifyEnvs ==
    {VerifyEnv(FALSE, "", FALSE, FALSE, FALSE)}
      \cup {VerifyEnv(TRUE, b, FALSE, FALSE, FALSE) : b \in PageBodies}
      \cup {VerifyEnv(TRUE, b, TRUE, FALSE, FALSE) : b \in PageBodies}
      \cup {VerifyEnv(TRUE, b, TRUE, TRUE, s) : b \in PageBodies, s \in BOOLEAN}
AiMessage(env) == IF env.aiSuccess THEN "AI: outcome matches" ELSE "AI: outcome differs"

\* ipData.data.replace(/My Public IPv[4|6]:/, '').trim(), and the two regular
\* expressions on it, computed once for the strings of the model
IpTextOf == [s \in Texts |-> Str(Trim(StripLabel(Chars(s))))]
ValidAddresses ==
    {s \in Texts : LET ipText == Trim(StripLabel(Chars(s)))
                   IN  Ipv4Test(ipText) \/ Ipv6Test(ipText)}

\* faulty variant: the last matching extract result is taken, not the first
IpBranchTakesLast(extractResults) ==
    LET hits == {i \in 1..Len(extractResults) : IsIpData(extractResults[i])}
        k == IF hits = {} THEN 0 ELSE CHOOSE i \in hits : \A j \in hits : i >= j
    IN  IF k # 0 /\ Truthy(DataOf(extractResults[k]))
        THEN IF DataOf(extractResults[k]).kind # "text"
             THEN Thrown("ipData.data.replace is not a function", FALSE)
             ELSE LET ipText == IpTextOf[DataOf(extractResults[k]).text]
                  IN  IF DataOf(extractResults[k]).text \in ValidAddresses
                      THEN Verdict(TRUE, "Test successful: IP address " \o ipText
                                           \o " extracted", 1, FALSE)
                      ELSE Verdict(FALSE, "Test failed: Extracted data '" \o ipText
                                            \o "' is not a valid IP address", 1, FALSE)
        ELSE Verdict(FALSE, "Test failed: No valid IP address extracted", 1, FALSE)

\* branch 1, "ip address"
IpBranch(extractResults) ==
    LET k == Find({i \in 1..Len(extractResults) : IsIpData(extractResults[i])})
    IN  IF k # 0 /\ Truthy(DataOf(extractResults[k]))
        THEN IF DataOf(extractResults[k]).kind # "text"
             THEN Thrown("ipData.data.replace is not a function", FALSE)
             ELSE LET ipText == IpTextOf[DataOf(extractResults[k]).text]
                  IN  IF DataOf(extractResults[k]).text \in ValidAddresses
                      THEN Verdict(TRUE, "Test successful: IP address " \o ipText
                                           \o " extracted", 1, FALSE)
                      ELSE Verdict(FALSE, "Test failed: Extracted data '" \o ipText
                                            \o "' is not a valid IP address", 1, FALSE)
        ELSE Verdict(FALSE, "Test failed: No valid IP address extracted", 1, FALSE)

\* faulty variant: the length of the found list is not looked at
SearchBranchAnyData(extractResults) ==
    LET k == Find({i \in 1..Len(extractResults) : IsListExtract(extractResults[i])})
    IN  IF k # 0 /\ Truthy(DataOf(extractResults[k]))
        THEN Verdict(TRUE, "Test successful: "
                             \o ToString(DataOf(extractResults[k]).items)
                             \o " search results extracted", 2, FALSE)
        ELSE Verdict(FALSE, "Test failed: No search results extracted", 2, FALSE)

\* branch 2, "search"
SearchBranch(extractResults) ==
    LET k == Find({i \in 1..Len(extractResults) : IsListExtract(extractResults[i])})
    IN  IF k # 0 /\ Truthy(DataOf(extractResults[k]))
             /\ DataOf(extractResults[k]).items > 0
        THEN Verdict(TRUE, "Test successful: "
                             \o ToString(DataOf(extractResults[k]).items)
                             \o " search results extracted", 2, FALSE)
        ELSE Verdict(FALSE, "Test failed: No search results extracted", 2, FALSE)

\* branch 3, "screenshot"
ScreenshotBranch(screenshotResults) ==
    IF Len(screenshotResults) > 0
    THEN Verdict(TRUE, "Test successful: " \o ToString(Len(screenshotResults))
                         \o " screenshots captured", 3, FALSE)
    ELSE Verdict(FALSE, "Test failed: No screenshots captured", 3, FALSE)

\* faulty variant: the condition without the test of the length
AllExtractedVacuous(extractResults) ==
    \A i \in 1..Len(extractResults) :
        extractResults[i].status = "success" /\ Truthy(DataOf(extractResults[i]))

\* the condition of branch 4
AllExtracted(extractResults) ==
    /\ Len(extractResults) > 0
    /\ \A i \in 1..Len(extractResults) :
          extractResults[i].status = "success" /\ Truthy(DataOf(extractResults[i]))

\* what the reasoning service sent back to the verification request: nothing
\* that parses, or the object {success, message}
NoReply == [parsed |-> FALSE, success |-> FALSE, message |-> ""]
Reply(env) ==
    IF env.aiOk
    THEN [parsed |-> TRUE, success |-> env.aiSuccess, message |-> AiMessage(env)]
    ELSE NoReply

\* faulty variant: success is taken from the response, the message is left at
\* its initial value
ServiceBranchKeepsMessage(env) ==
    IF ~env.titleOk THEN Thrown(ThrownMessage, FALSE)
    ELSE IF ~env.aiOk THEN Thrown("Request failed with status code 500", TRUE)
    ELSE Verdict(env.aiSuccess, "Test completed", 6, TRUE)

\* branch 6, the reasoning service
ServiceBranch(env) ==
    IF ~env.titleOk THEN Thrown(ThrownMessage, FALSE)
    ELSE IF ~env.aiOk THEN Thrown("Request failed with status code 500", TRUE)
    ELSE Verdict(env.aiSuccess, AiMessage(env), 6, TRUE)

\* faulty variant: the "search" test comes before the "ip address" test
VerifyChainSearchFirst(instructions, actionResults, env) ==
    LET extractResults == ResultsOfType(actionResults, "extract")
        screenshotResults == ResultsOfType(actionResults, "screenshot")
    IN  IF Mentions(instructions, "search") THEN SearchBranch(extractResults)
        ELSE IF Mentions(instructions, "ip address") THEN IpBranch(extractResults)
        ELSE IF Mentions(instructions, "screenshot")
             THEN ScreenshotBranch(screenshotResults)
        ELSE IF AllExtracted(extractResults)
             THEN Verdict(TRUE, "Test successful: All extractions completed", 4, FALSE)
        ELSE IF BodyHas(env.body, successIndicators)
             THEN Verdict(TRUE,
                    "Test successful: Expected outcome achieved (based on page content)",
                    5, FALSE)
        ELSE IF BodyHas(env.body, errorIndicators)
             THEN Verdict(FALSE, "Test failed: Error detected on page", 5, FALSE)
        ELSE ServiceBranch(env)

\* the body of the try of verifyOutcome: the if / else-if chain
VerifyChain(instructions, actionResults, env) ==
    LET extractResults == ResultsOfType(actionResults, "extract")
        screenshotResults == ResultsOfType(actionResults, "screenshot")
    IN  IF Mentions(instructions, "ip address") THEN IpBranch(extractResults)
        ELSE IF Mentions(instructions, "search") THEN SearchBranch(extractResults)
        ELSE IF Mentions(instructions, "screenshot")
             THEN ScreenshotBranch(screenshotResults)
        ELSE IF AllExtracted(extractResults)
             THEN Verdict(TRUE, "Test successful: All extractions completed", 4, FALSE)
        ELSE IF BodyHas(env.body, successIndicators)
             THEN Verdict(TRUE,
                    "Test successful: Expected outcome achieved (based on page content)",
                    5, FALSE)
        ELSE IF BodyHas(env.body, errorIndicators)
             THEN Verdict(FALSE, "Test failed: Error detected on page", 5, FALSE)
        ELSE ServiceBranch(env)

VerifyTry(instructions, actionResults, env) ==
    IF ~env.bodyOk THEN Thrown(ThrownMessage, FALSE)
    ELSE VerifyChain(instructions, actionResults, env)

\* faulty variant: no catch, the exception leaves verifyOutcome
VerifyCatchNone(attempt) == attempt

\* the catch of verifyOutcome
VerifyCatch(attempt) ==
    IF attempt.threw
    THEN [attempt EXCEPT !.threw = FALSE, !.success = FALSE,
                         !.message = "Verification failed: " \o attempt.message]
    ELSE attempt

verifyOutcome(instructions, actionResults, env) ==
    VerifyCatch(VerifyTry(instructions, actionResults, env))

\* --------------------------------------------------------------- runQATest
Pending == [kind |-> "pending"]
Resolved(report) == [kind |-> "resolved", report |-> report]
Rejected(message) == [kind |-> "rejected", message |-> message]

\* Math.round of the quotient a / b of two naturals, b > 0: halves go up
RoundedQuotient(a, b) == (2 * a + b) \div (2 * b)

\* calculateSuccessRate: the division of 0 by 0 gives NaN
calculateSuccessRate(actionResults) ==
    LET successful == Len(SelectSeq(actionResults, LAMBDA x : x.status = "success"))
    IN  IF Len(actionResults) = 0 THEN "NaN%"
        ELSE ToString(RoundedQuotient(successful * 100, Len(actionResults))) \o "%"

\* faulty variant: the report keeps the successful results only
ReportSuccessesOnly(req, verdict, actionResults, evidence) ==
    [instructions |-> req.instructions,
     status |-> IF verdict.success THEN "success" ELSE "failed",
     message |-> verdict.message,
     findings |-> SelectSeq(actionResults, LAMBDA x : x.status = "success"),
     stepsPerformed |-> Len(actionResults),
     successRate |-> calculateSuccessRate(actionResults),
     screenshots |-> evidence]

\* faulty variant: the status of the report does not come from the verification
ReportAlwaysSuccess(req, verdict, actionResults, evidence) ==
    [instructions |-> req.instructions,
     status |-> "success",
     message |-> verdict.message,
     findings |-> actionResults,
     stepsPerformed |-> Len(actionResults),
     successRate |-> calculateSuccessRate(actionResults),
     screenshots |-> evidence]

\* the results object runQATest returns
Report(req, verdict, actionResults, evidence) ==
    [instructions |-> req.instructions,
     status |-> IF verdict.success THEN "success" ELSE "failed",
     message |-> verdict.message,
     findings |-> actionResults,
     stepsPerformed |-> Len(actionResults),
     successRate |-> calculateSuccessRate(actionResults),
     screenshots |-> evidence]

\* faulty variant: browser.close() at the end of the try block instead of in a
\* finally block, so that a throw goes straight to the rejection
OnThrowSkipsFinally == "settle"

\* where a run goes when a step of the try block throws: catch rethrows, and
\* the finally block runs before the promise rejects
OnThrow == "finally"

\* if (browser): the finally block closes the browser that was launched
HasBrowser(b) == b # "none"

\* the order in which runQATest starts its stages
StageOrder == <<"open", "snapshot", "plan", "execute", "verify", "teardown">>

\* ------------------------------------------------------------- app.js
RunningRecord == [status |-> "running", message |-> "Analysis started"]

\* the record the .catch handler stores
ErrorRecord(message) ==
    [status |-> "error",
     message |-> IF message # "" THEN message ELSE "Internal server error",
     error |-> message, stack |-> "Error: " \o message]

\* faulty variant: the .catch handler stores the error's message without a status
SettledRecordRaw(out) ==
    IF out.kind = "resolved" THEN out.report ELSE [message |-> out.message]

\* faulty variant: the .catch handler swallows the error and leaves the
\* placeholder in the registry
SettledRecordSwallowsError(out) ==
    IF out.kind = "resolved" THEN out.report ELSE RunningRecord

\* the record stored when the promise of runQATest settles
SettledRecord(out) ==
    IF out.kind = "resolved" THEN out.report ELSE ErrorRecord(out.message)

\* faulty variant: the handlers share one analysisId variable, which holds
\* the identifier of the first submission
MapSetSharedKey(map, key, value) ==
    IF DOMAIN map = {}
    THEN [k \in {key} |-> value]
    ELSE [k \in DOMAIN map |->
            IF k = (CHOOSE m \in DOMAIN map : \A n \in DOMAIN map : m <= n)
            THEN value ELSE map[k]]

\* Map.prototype.set
MapSet(map, key, value) ==
    [k \in DOMAIN map \cup {key} |-> IF k = key THEN value ELSE map[k]]

\* GET /api/results/:id
ResultsAnswer(store, id) ==
    IF id \notin DOMAIN store
    THEN [route |-> "GET", id |-> id, code |-> 404,
          body |-> [error |-> "Results not found for ID", analysisId |-> id]]
    ELSE [route |-> "GET", id |-> id, code |-> 200, body |-> store[id]]

\* ------------------------------------------------------------------- Init
NoRequest == [instructions |-> "", options |-> [screenshots |-> TRUE]]
NoVerdict == [threw |-> FALSE, success |-> FALSE, message |-> "", branch |-> 0,
              asked |-> FALSE, body |-> "", reply |-> NoReply]

InitRuns ==
    /\ pc = [r \in Runs |-> "idle"]
    /\ request = [r \in Runs |-> NoRequest]
    /\ browser = [r \in Runs |-> "none"]
    /\ closeCalls = [r \in Runs |-> 0]
    /\ stages = [r \in Runs |-> <<>>]
    /\ screenshots = [r \in Runs |-> <<>>]
    /\ plan = [r \in Runs |-> <<>>]
    /\ idx = [r \in Runs |-> 0]
    /\ inflight = [r \in Runs |-> {}]
    /\ attempts = [r \in Runs |-> <<>>]
    /\ results = [r \in Runs |-> <<>>]
    /\ origins = [r \in Runs |-> <<>>]
    /\ dispatched = [r \in Runs |-> <<>>]
    /\ verification = [r \in Runs |-> NoVerdict]
    /\ aiCalls = [r \in Runs |-> [plan |-> 0, verify |-> 0]]
    /\ outcome = [r \in Runs |-> Pending]

InitHttp ==
    /\ apiKey \in BOOLEAN
    /\ resultsStore = <<>>
    /\ submitted = {}
    /\ response = [route |-> "none"]

PollIdle ==
    /\ pollPc = "off"
    /\ clock = 0
    /\ startTime = 0
    /\ wakeAt = 0
    /\ pageText = NullData
    /\ changedAt = -1
    /\ lastRead = NoData
    /\ readAt = -1
    /\ pollResult = NoData

\* the validator has not been asked
AddrIdle ==
    /\ candidate = [sep |-> "", pieces |-> <<>>]
    /\ isValid = "none"

\* no settle wait has been made
WaitIdle ==
    /\ waitTime = Undefined
    /\ waited = -1

Init == InitHttp /\ InitRuns /\ PollIdle /\ AddrIdle /\ WaitIdle

\* ---------------------------------------------------------------- actions
\* a step of the try block throws: the run goes to its finally block with
\* the error it will reject with
Throw(r, message) ==
    /\ pc' = [pc EXCEPT ![r] = OnThrow]
    /\ outcome' = [outcome EXCEPT ![r] = Rejected(message)]

\* faulty variant: runQATest does not look at the credential
KeyCheckSkipped(key) == [threw |-> FALSE, message |-> ""]

\* if (!process.env.ARCADE_AI_API_KEY) throw ..., before the try block
KeyCheck(key) ==
    IF ~key
    THEN [threw |-> TRUE,
          message |-> "ARCADE_AI_API_KEY is not set in environment variables"]
    ELSE [threw |-> FALSE, message |-> ""]

\* POST /api/analyze-workflow: stores the placeholder, starts runQATest (which
\* runs up to its first await) and answers with the identifier
Submit(r, req) ==
    /\ pc[r] = "idle"
    /\ r \notin submitted
    /\ submitted' = submitted \cup {r}
    /\ resultsStore' = MapSet(resultsStore, r, RunningRecord)
    /\ request' = [request EXCEPT ![r] = req]
    /\ response' = [route |-> "POST", id |-> r, code |-> 200,
                    body |-> [analysisId |-> r, status |-> "running",
                              message |-> "Analysis started"]]
    /\ IF KeyCheck(apiKey).threw
       THEN /\ pc' = [pc EXCEPT ![r] = "settle"]
            /\ outcome' = [outcome EXCEPT ![r] = Rejected(KeyCheck(apiKey).message)]
            /\ UNCHANGED stages
       ELSE /\ pc' = [pc EXCEPT ![r] = "launch"]
            /\ stages' = [stages EXCEPT ![r] = Append(@, "open")]
            /\ UNCHANGED outcome
    /\ UNCHANGED <<apiKey, browser, closeCalls, screenshots, plan, idx, inflight,
                   attempts, results, origins, dispatched, verification, aiCalls, pollVars, unitVars>>

\* GET /api/results/:id
GetResults(id) ==
    /\ response' = ("known" :> (id \in submitted)) @@ ResultsAnswer(resultsStore, id)
    /\ UNCHANGED <<apiKey, resultsStore, submitted, runVars, pollVars, unitVars>>

\* await puppeteer.launch(...)
Launch(r) ==
    /\ pc[r] = "launch"
    /\ \E ok \in BOOLEAN :
          IF ok
          THEN /\ browser' = [browser EXCEPT ![r] = "open"]
               /\ pc' = [pc EXCEPT ![r] = "page"]
               /\ UNCHANGED outcome
          ELSE /\ Throw(r, "Failed to launch the browser process")
               /\ UNCHANGED browser
    /\ UNCHANGED <<httpVars, request, closeCalls, stages, screenshots, plan, idx,
                   inflight, attempts, results, origins, dispatched, verification, aiCalls, pollVars, unitVars>>

\* browser.newPage() and the device emulation
NewPage(r) ==
    /\ pc[r] = "page"
    /\ \E ok \in BOOLEAN :
          IF ok
          THEN pc' = [pc EXCEPT ![r] = "goto"] /\ UNCHANGED outcome
          ELSE Throw(r, "Protocol error: Target closed")
    /\ UNCHANGED <<httpVars, request, browser, closeCalls, stages, screenshots, plan,
                   idx, inflight, attempts, results, origins, dispatched, verification, aiCalls,
                   pollVars, unitVars>>

\* page.goto(url), handleCookiePopup (which never throws) and the settle wait
Goto(r) ==
    /\ pc[r] = "goto"
    /\ \E ok \in BOOLEAN :
          IF ok
          THEN pc' = [pc EXCEPT ![r] = "initial"] /\ UNCHANGED outcome
          ELSE Throw(r, "Navigation timeout of 30000 ms exceeded")
    /\ UNCHANGED <<httpVars, request, browser, closeCalls, stages, screenshots, plan,
                   idx, inflight, attempts, results, origins, dispatched, verification, aiCalls,
                   pollVars, unitVars>>

\* the initial screenshot, unless options.screenshots is false
InitialShot(r) ==
    /\ pc[r] = "initial"
    /\ IF request[r].options.screenshots
       THEN \E ok \in BOOLEAN :
              IF ok
              THEN /\ screenshots' = [screenshots EXCEPT ![r] =
                                        Append(@, Evidence("initial", clock))]
                   /\ pc' = [pc EXCEPT ![r] = "analyze"]
                   /\ UNCHANGED outcome
              ELSE /\ Throw(r, "Failed to take screenshot: " \o ThrownMessage)
                   /\ UNCHANGED screenshots
       ELSE /\ pc' = [pc EXCEPT ![r] = "analyze"]
            /\ UNCHANGED <<outcome, screenshots>>
    /\ UNCHANGED <<httpVars, request, browser, closeCalls, stages, plan, idx,
                   inflight, attempts, results, origins, dispatched, verification, aiCalls, pollVars, unitVars>>

\* analyzePage
Analyze(r) ==
    /\ pc[r] = "analyze"
    /\ stages' = [stages EXCEPT ![r] = Append(@, "snapshot")]
    /\ \E ok \in BOOLEAN :
          IF ok
          THEN pc' = [pc EXCEPT ![r] = "plan"] /\ UNCHANGED outcome
          ELSE Throw(r, "Page analysis failed: " \o ThrownMessage)
    /\ UNCHANGED <<httpVars, request, browser, closeCalls, screenshots, plan, idx,
                   inflight, attempts, results, origins, dispatched, verification, aiCalls, pollVars, unitVars>>

\* what the reasoning service answers to the planning request: a failure
\* (service error, or a body that does not parse), or an ActionPlan
PlanAnswers(pool) ==
    {[ok |-> FALSE, actions |-> <<>>]} \cup {[ok |-> TRUE, actions |-> p] : p \in pool}

\* faulty variant: a failed planning call is made a second time before giving up
processTestInstructionsRetry(answer) ==
    IF answer.ok
    THEN [threw |-> FALSE, calls |-> 1, actions |-> answer.actions, message |-> ""]
    ELSE [threw |-> TRUE, calls |-> 2, actions |-> <<>>,
          message |-> "Failed to process test instructions with Arcade AI: "
                        \o "Request failed with status code 500"]

\* processTestInstructions: one call, the parsed plan or a wrapped error
processTestInstructions(answer) ==
    IF answer.ok
    THEN [threw |-> FALSE, calls |-> 1, actions |-> answer.actions, message |-> ""]
    ELSE [threw |-> TRUE, calls |-> 1, actions |-> <<>>,
          message |-> "Failed to process test instructions with Arcade AI: "
                        \o "Request failed with status code 500"]

\* processTestInstructions, then executeActions is entered with results = []
Plan(r, pool) ==
    /\ pc[r] = "plan"
    /\ \E answer \in PlanAnswers(pool) :
          LET p == processTestInstructions(answer)
          IN  /\ aiCalls' = [aiCalls EXCEPT ![r].plan = @ + p.calls]
              /\ IF p.threw
                 THEN /\ Throw(r, p.message)
                      /\ stages' = [stages EXCEPT ![r] = Append(@, "plan")]
                      /\ UNCHANGED <<plan, idx, attempts, results, origins, dispatched>>
                 ELSE /\ plan' = [plan EXCEPT ![r] = p.actions]
                      /\ idx' = [idx EXCEPT ![r] = 1]
                      /\ attempts' = [attempts EXCEPT ![r] = [i \in 1..Len(p.actions) |-> 0]]
                      /\ results' = [results EXCEPT ![r] = <<>>]
                      /\ origins' = [origins EXCEPT ![r] = <<>>]
                      /\ dispatched' = [dispatched EXCEPT ![r] = <<>>]
                      /\ stages' = [stages EXCEPT ![r] = @ \o <<"plan", "execute">>]
                      /\ pc' = [pc EXCEPT ![r] = "exec"]
                      /\ UNCHANGED outcome
    /\ UNCHANGED <<httpVars, request, browser, closeCalls, screenshots, inflight,
                   verification, pollVars, unitVars>>

\* executeActions: the try of one loop iteration up to the pause
Act(r) ==
    /\ LoopReady(pc[r])
    /\ idx[r] <= Len(plan[r])
    /\ LET action == plan[r][idx[r]]
       IN  /\ attempts' = [attempts EXCEPT ![r][idx[r]] = @ + 1]
           /\ dispatched' = [dispatched EXCEPT ![r] = Append(@, Taken(idx[r], action))]
           /\ \E o \in Outcomes(action) :
                IF o.threw
                THEN /\ results' = [results EXCEPT ![r] =
                                      Append(@, Caught(action, ActionError(action)))]
                     /\ origins' = [origins EXCEPT ![r] = Append(@, idx[r])]
                     /\ idx' = [idx EXCEPT ![r] = AfterCatch(@, Len(plan[r]))]
                     /\ UNCHANGED <<pc, inflight, screenshots>>
                ELSE /\ results' = [results EXCEPT ![r] =
                                      Append(@, Handled(action, o, clock))]
                     /\ origins' = [origins EXCEPT ![r] = Append(@, idx[r])]
                     /\ screenshots' =
                          IF action.type = "screenshot"
                          THEN [screenshots EXCEPT ![r] =
                                  Append(@, Evidence(ShotName(action), clock))]
                          ELSE screenshots
                     /\ inflight' = [inflight EXCEPT ![r] = @ \cup {idx[r]}]
                     /\ pc' = [pc EXCEPT ![r] = "pause"]
                     /\ UNCHANGED idx
    /\ UNCHANGED <<httpVars, request, browser, closeCalls, stages, plan, verification,
                   aiCalls, outcome, pollVars, unitVars>>

\* executeActions: await page.waitForTimeout(500), inside the same try
Pause(r) ==
    /\ pc[r] = "pause"
    /\ \E ok \in BOOLEAN :
          /\ results' = IF ok THEN results
                        ELSE [results EXCEPT ![r] =
                                Append(@, Caught(plan[r][idx[r]], ThrownMessage))]
          /\ origins' = IF ok THEN origins
                        ELSE [origins EXCEPT ![r] = Append(@, idx[r])]
          /\ idx' = [idx EXCEPT ![r] = IF ok THEN @ + 1 ELSE AfterCatch(@, Len(plan[r]))]
    /\ inflight' = [inflight EXCEPT ![r] = @ \ {idx[r]}]
    /\ pc' = [pc EXCEPT ![r] = "exec"]
    /\ UNCHANGED <<httpVars, request, browser, closeCalls, stages, screenshots, plan,
                   attempts, dispatched, verification, aiCalls, outcome, pollVars,
                   unitVars>>

\* faulty variant: executeActions is not awaited to its end, verification starts
\* while the last action is still in its pause
ExecutionOverEarly(position, i, n) ==
    \/ position = "exec" /\ i > n
    \/ position = "pause" /\ i = n

\* executeActions has returned: the loop is over and nothing is being handled
ExecutionOver(position, i, n) == position = "exec" /\ i > n

\* executeActions returns and verifyOutcome is awaited
Verify(r) ==
    /\ ExecutionOver(pc[r], idx[r], Len(plan[r]))
    /\ stages' = [stages EXCEPT ![r] = Append(@, "verify")]
    /\ \E env \in VerifyEnvs :
          LET v == verifyOutcome(request[r].instructions, results[r], env)
          IN  /\ aiCalls' = [aiCalls EXCEPT ![r].verify = @ + (IF v.asked THEN 1 ELSE 0)]
              /\ IF v.threw
                 THEN Throw(r, v.message) /\ UNCHANGED verification
                 ELSE /\ verification' = [verification EXCEPT ![r] =
                            [threw |-> v.threw, success |-> v.success,
                             message |-> v.message, branch |-> v.branch,
                             asked |-> v.asked,
                             body |-> IF v.branch >= 5 \/ v.asked THEN env.body ELSE "",
                             reply |-> IF v.asked THEN Reply(env) ELSE NoReply]]
                      /\ pc' = [pc EXCEPT ![r] = "final"]
                      /\ UNCHANGED outcome
    /\ UNCHANGED <<httpVars, request, browser, closeCalls, screenshots, plan, idx,
                   inflight, attempts, results, origins, dispatched, pollVars, unitVars>>

\* faulty variant: the final screenshot is taken whatever options.screenshots is
FinalShotAlways(r) ==
    /\ pc[r] = "final"
    /\ \E ok \in BOOLEAN :
          IF ok
          THEN /\ screenshots' = [screenshots EXCEPT ![r] =
                                    Append(@, Evidence("final", clock))]
               /\ pc' = [pc EXCEPT ![r] = "report"]
               /\ UNCHANGED outcome
          ELSE /\ Throw(r, "Failed to take screenshot: " \o ThrownMessage)
               /\ UNCHANGED screenshots
    /\ UNCHANGED <<httpVars, request, browser, closeCalls, stages, plan, idx,
                   inflight, attempts, results, origins, dispatched, verification, aiCalls, pollVars, unitVars>>

\* the final screenshot, unless options.screenshots is false
FinalShot(r) ==
    /\ pc[r] = "final"
    /\ IF request[r].options.screenshots
       THEN \E ok \in BOOLEAN :
              IF ok
              THEN /\ screenshots' = [screenshots EXCEPT ![r] =
                                        Append(@, Evidence("final", clock))]
                   /\ pc' = [pc EXCEPT ![r] = "report"]
                   /\ UNCHANGED outcome
              ELSE /\ Throw(r, "Failed to take screenshot: " \o ThrownMessage)
                   /\ UNCHANGED screenshots
       ELSE /\ pc' = [pc EXCEPT ![r] = "report"]
            /\ UNCHANGED <<outcome, screenshots>>
    /\ UNCHANGED <<httpVars, request, browser, closeCalls, stages, plan, idx,
                   inflight, attempts, results, origins, dispatched, verification, aiCalls, pollVars, unitVars>>

\* the results object: page.title() and the user agent are read from the page
BuildReport(r) ==
    /\ pc[r] = "report"
    /\ \E ok \in BOOLEAN :
          IF ok
          THEN /\ outcome' = [outcome EXCEPT ![r] =
                     Resolved(Report(request[r], verification[r], results[r],
                                     screenshots[r]))]
               /\ pc' = [pc EXCEPT ![r] = "finally"]
          ELSE Throw(r, "Execution context was destroyed")
    /\ UNCHANGED <<httpVars, request, browser, closeCalls, stages, screenshots, plan,
                   idx, inflight, attempts, results, origins, dispatched, verification, aiCalls,
                   pollVars, unitVars>>

\* the message of a failing browser.close()
CloseError == "Protocol error: Connection closed"

\* faulty variant: the rejection of browser.close() is not caught and replaces
\* what the run was about to settle with
AfterCloseRethrows(out, ok) == IF ok THEN out ELSE Rejected(CloseError)

\* await browser.close().catch(err => console.error(...)): the run settles
\* with what it had before the finally block
AfterClose(out, ok) == out

\* the finally block: browser.close(), whose failure is logged and dropped
Finally(r) ==
    /\ pc[r] = "finally"
    /\ IF HasBrowser(browser[r])
       THEN /\ closeCalls' = [closeCalls EXCEPT ![r] = @ + 1]
            /\ \E ok \in BOOLEAN :
                 /\ browser' = [browser EXCEPT ![r] =
                                  IF ok THEN "closed" ELSE "closeFailed"]
                 /\ outcome' = [outcome EXCEPT ![r] = AfterClose(@, ok)]
            /\ stages' = [stages EXCEPT ![r] = Append(@, "teardown")]
       ELSE UNCHANGED <<closeCalls, browser, stages, outcome>>
    /\ pc' = [pc EXCEPT ![r] = "settle"]
    /\ UNCHANGED <<httpVars, request, screenshots, plan, idx, inflight, attempts,
                   results, origins, dispatched, verification, aiCalls, pollVars,
                   unitVars>>

\* the promise of runQATest settles: the .then or the .catch handler of the
\* submission stores the terminal record
Settle(r) ==
    /\ pc[r] = "settle"
    /\ resultsStore' = MapSet(resultsStore, r, SettledRecord(outcome[r]))
    /\ pc' = [pc EXCEPT ![r] = "done"]
    /\ UNCHANGED <<apiKey, submitted, response, request, browser, closeCalls, stages,
                   screenshots, plan, idx, inflight, attempts, results, origins, dispatched, verification,
                   aiCalls, outcome, pollVars, unitVars>>

\* one step of a run
RunStep(r) ==
    \/ Launch(r)
    \/ NewPage(r)
    \/ Goto(r)
    \/ InitialShot(r)
    \/ Analyze(r)
    \/ Plan(r, PipelinePlans)
    \/ Act(r)
    \/ Pause(r)
    \/ Verify(r)
    \/ FinalShot(r)
    \/ BuildReport(r)
    \/ Finally(r)
    \/ Settle(r)

\* the identifiers a client asks about: the ones handed out and an unknown one
LookupIds == submitted \cup {CHOOSE id \in Runs : id \notin submitted}

\* one server, one submitted run, any number of status lookups
Next ==
    \/ \E req \in PipelineRequests : Submit(1, req)
    \/ \E id \in LookupIds : GetResults(id)
    \/ \E r \in Runs : RunStep(r)

Spec == Init /\ [][Next]_vars

\* ------------------------------------------------ executeActions on its own
\* the state in which executeActions is entered: run 1 has launched its
\* browser, taken the snapshot and received the plan p
Entered(req, p) ==
    /\ apiKey = TRUE
    /\ resultsStore = MapSet(<<>>, 1, RunningRecord)
    /\ submitted = {1}
    /\ response = [route |-> "POST", id |-> 1, code |-> 200,
                   body |-> [analysisId |-> 1, status |-> "running",
                             message |-> "Analysis started"]]
    /\ pc = [r \in Runs |-> IF r = 1 THEN "exec" ELSE "idle"]
    /\ request = [r \in Runs |-> IF r = 1 THEN req ELSE NoRequest]
    /\ browser = [r \in Runs |-> IF r = 1 THEN "open" ELSE "none"]
    /\ closeCalls = [r \in Runs |-> 0]
    /\ stages = [r \in Runs |->
                   IF r = 1 THEN <<"open", "snapshot", "plan", "execute">> ELSE <<>>]
    /\ screenshots = [r \in Runs |-> <<>>]
    /\ plan = [r \in Runs |-> IF r = 1 THEN p ELSE <<>>]
    /\ inflight = [r \in Runs |-> {}]
    /\ verification = [r \in Runs |-> NoVerdict]
    /\ aiCalls = [r \in Runs |-> [plan |-> IF r = 1 THEN 1 ELSE 0, verify |-> 0]]
    /\ outcome = [r \in Runs |-> Pending]
    /\ PollIdle
    /\ AddrIdle
    /\ WaitIdle

InitExec ==
    \E p \in Plans :
        /\ Entered([instructions |-> "sign up", options |-> [screenshots |-> FALSE]], p)
        /\ idx = [r \in Runs |-> IF r = 1 THEN 1 ELSE 0]
        /\ attempts = [r \in Runs |-> IF r = 1 THEN [i \in 1..Len(p) |-> 0] ELSE <<>>]
        /\ results = [r \in Runs |-> <<>>]
        /\ origins = [r \in Runs |-> <<>>]
        /\ dispatched = [r \in Runs |-> <<>>]
    /\ dispatched = [r \in Runs |-> <<>>]

NextExec == Act(1) \/ Pause(1)

SpecExec == InitExec /\ [][NextExec]_vars

\* -------------------------------------------------- verifyOutcome on its own
\* the results one action can leave in the log
ResultsOf(action) ==
    {Handled(action, o, 0) : o \in {x \in Outcomes(action) : ~x.threw}}
      \cup {Caught(action, ThrownMessage)}
      \cup (IF action.type \in KnownTypes THEN {Caught(action, ActionError(action))} ELSE {})
ResultSet == UNION {ResultsOf(a) : a \in ActionSet}

\* the logs executeActions hands to verifyOutcome
ResultLogs == UNION {[1..n -> ResultSet] : n \in 0..MaxResults}

\* executeActions has returned the log for the plan of the log's actions
InitVerify ==
    \E text \in InstructionTexts, log \in ResultLogs :
        /\ Entered([instructions |-> text, options |-> [screenshots |-> FALSE]],
                   [i \in 1..Len(log) |-> log[i].action])
        /\ idx = [r \in Runs |-> IF r = 1 THEN Len(log) + 1 ELSE 0]
        /\ attempts = [r \in Runs |-> IF r = 1 THEN [i \in 1..Len(log) |-> 1] ELSE <<>>]
        /\ results = [r \in Runs |-> IF r = 1 THEN log ELSE <<>>]
        /\ origins = [r \in Runs |-> IF r = 1 THEN [i \in 1..Len(log) |-> i] ELSE <<>>]
        /\ dispatched = [r \in Runs |->
                           IF r = 1 THEN [i \in 1..Len(log) |-> Taken(i, log[i].action)]
                           ELSE <<>>]

NextVerify == Verify(1)

SpecVerify == InitVerify /\ [][NextVerify]_vars

\* ------------------------------------------------------------ pollForContent
\* the texts the polled element goes through
PolledTexts == {NullData, TextData(""), TextData("Detecting..."), TextData("203.0.113.5")}

\* faulty variant: the loop gives up one polling interval before the timeout
PollContinuesEarly(now, start) == now - start + PollIntervalMs < PollTimeoutMs

\* faulty variant: the loop condition is <= instead of <
PollContinuesLate(now, start) == now - start <= PollTimeoutMs

\* while (Date.now() - startTime < timeout)
PollContinues(now, start) == now - start < PollTimeoutMs

\* pollForContent is entered: startTime = Date.now()
InitPoll ==
    /\ InitHttp
    /\ InitRuns
    /\ AddrIdle
    /\ WaitIdle
    /\ clock = 0
    /\ pollPc = "check"
    /\ startTime = 0
    /\ wakeAt = 0
    /\ pageText \in {d \in PolledTexts : ~PollAccepts(d)}
    /\ changedAt = -1
    /\ lastRead = NoData
    /\ readAt = -1
    /\ pollResult = NoData

\* the loop condition; the timeout ends the loop with null
PollCheck ==
    /\ pollPc = "check"
    /\ IF PollContinues(clock, startTime)
       THEN pollPc' = "read" /\ UNCHANGED pollResult
       ELSE pollPc' = "done" /\ pollResult' = NullData
    /\ UNCHANGED <<httpVars, runVars, unitVars, clock, startTime, wakeAt, pageText, changedAt,
                   lastRead, readAt>>

\* await page.evaluate(...): the read, the test, and the return or the wait
PollRead ==
    /\ pollPc = "read"
    /\ \E ok \in BOOLEAN :
          IF ~ok
          THEN /\ pollPc' = "threw"
               /\ UNCHANGED <<lastRead, readAt, pollResult, wakeAt>>
          ELSE /\ lastRead' = pageText
               /\ readAt' = clock
               /\ IF PollAccepts(pageText)
                  THEN /\ pollPc' = "done"
                       /\ pollResult' = pageText
                       /\ UNCHANGED wakeAt
                  ELSE /\ pollPc' = "wait"
                       /\ wakeAt' = clock + PollIntervalMs
                       /\ UNCHANGED pollResult
    /\ UNCHANGED <<httpVars, runVars, unitVars, clock, startTime, pageText, changedAt>>

\* await page.waitForTimeout(2000) is over, at its due time or later
PollWake ==
    /\ pollPc = "wait"
    /\ clock >= wakeAt
    /\ pollPc' = "check"
    /\ UNCHANGED <<httpVars, runVars, unitVars, clock, startTime, wakeAt, pageText, changedAt,
                   lastRead, readAt, pollResult>>

\* time passes while the poller waits for the page or for its timer
Tick ==
    /\ pollPc \in {"read", "wait"}
    /\ clock < startTime + PollTimeoutMs + PollIntervalMs
    /\ clock' = clock + TickMs
    /\ UNCHANGED <<httpVars, runVars, unitVars, pollPc, startTime, wakeAt, pageText, changedAt,
                   lastRead, readAt, pollResult>>

\* the page's script sets the element's text; an address, once shown, stays
PageUpdate ==
    /\ pollPc \in {"check", "read", "wait"}
    /\ ~PollAccepts(pageText)
    /\ \E d \in PolledTexts \ {pageText} :
          /\ pageText' = d
          /\ changedAt' = IF PollAccepts(d) THEN clock ELSE changedAt
    /\ UNCHANGED <<httpVars, runVars, unitVars, clock, pollPc, startTime, wakeAt, lastRead, readAt,
                   pollResult>>

NextPoll == PollCheck \/ PollRead \/ PollWake \/ Tick \/ PageUpdate

SpecPoll == InitPoll /\ [][NextPoll]_vars

\* ------------------------------------------------- the Evidence of one run
\* the actions of the plans of this specification; "loaded_page" is the name
\* the planning prompt's example gives its screenshot
ShotActions ==
    { Action("screenshot", "page", ""),
      Action("screenshot", "page", "loaded_page"),
      Action("click", "#go", "") }
ShotPlans == PlansOver(ShotActions)

\* the page is loaded: runQATest is about to take its initial screenshot
InitShots ==
    /\ InitHttp
    /\ \E enabled \in BOOLEAN :
          request = [r \in Runs |->
                       IF r = 1 THEN [instructions |-> "take a screenshot",
                                      options |-> [screenshots |-> enabled]]
                       ELSE NoRequest]
    /\ pc = [r \in Runs |-> IF r = 1 THEN "initial" ELSE "idle"]
    /\ browser = [r \in Runs |-> IF r = 1 THEN "open" ELSE "none"]
    /\ closeCalls = [r \in Runs |-> 0]
    /\ stages = [r \in Runs |-> IF r = 1 THEN <<"open">> ELSE <<>>]
    /\ screenshots = [r \in Runs |-> <<>>]
    /\ plan = [r \in Runs |-> <<>>]
    /\ idx = [r \in Runs |-> 0]
    /\ inflight = [r \in Runs |-> {}]
    /\ attempts = [r \in Runs |-> <<>>]
    /\ results = [r \in Runs |-> <<>>]
    /\ origins = [r \in Runs |-> <<>>]
    /\ dispatched = [r \in Runs |-> <<>>]
    /\ verification = [r \in Runs |-> NoVerdict]
    /\ aiCalls = [r \in Runs |-> [plan |-> 0, verify |-> 0]]
    /\ outcome = [r \in Runs |-> Pending]
    /\ PollIdle
    /\ AddrIdle
    /\ WaitIdle

\* time passes between two steps of the run
Elapse ==
    /\ clock < MaxTicks * TickMs
    /\ clock' = clock + TickMs
    /\ UNCHANGED <<httpVars, runVars, unitVars, pollPc, startTime, wakeAt, pageText, changedAt,
                   lastRead, readAt, pollResult>>

NextShots ==
    \/ InitialShot(1)
    \/ Analyze(1)
    \/ Plan(1, ShotPlans)
    \/ Act(1)
    \/ Pause(1)
    \/ Verify(1)
    \/ FinalShot(1)
    \/ BuildReport(1)
    \/ Elapse

SpecShots == InitShots /\ [][NextShots]_vars

\* --------------------------------- executeActions with the poller it calls
\* faulty variant: every text extract is polled, whatever its target
PollsAnyTarget(action) ==
    /\ action.type = "extract"
    /\ action.value # "list"

\* the extract goes through pollForContent
Polls(action) ==
    /\ action.type = "extract"
    /\ action.value # "list"
    /\ TextIncludes(action.target, "ip")

\* an iteration whose action does not poll
ActDirect(r) ==
    /\ LoopReady(pc[r])
    /\ idx[r] <= Len(plan[r])
    /\ ~Polls(plan[r][idx[r]])
    /\ Act(r)

\* extractedData = await pollForContent(page, action.target, 30000): the call
PollStart(r) ==
    /\ LoopReady(pc[r])
    /\ idx[r] <= Len(plan[r])
    /\ Polls(plan[r][idx[r]])
    /\ pollPc = "off"
    /\ pc' = [pc EXCEPT ![r] = "poll"]
    /\ attempts' = [attempts EXCEPT ![r][idx[r]] = @ + 1]
    /\ dispatched' = [dispatched EXCEPT ![r] = Append(@, Taken(idx[r], plan[r][idx[r]]))]
    /\ pollPc' = "check"
    /\ startTime' = clock
    /\ wakeAt' = clock
    /\ lastRead' = NoData
    /\ readAt' = -1
    /\ pollResult' = NoData
    /\ UNCHANGED <<httpVars, unitVars, request, browser, closeCalls, stages, screenshots, plan,
                   idx, inflight, results, origins, verification, aiCalls, outcome,
                   clock, pageText, changedAt>>

\* pollForContent returns and the extract case pushes its result, or it threw
\* and the catch pushes
PollReturn(r) ==
    /\ pc[r] = "poll"
    /\ pollPc \in {"done", "threw"}
    /\ LET action == plan[r][idx[r]]
       IN  IF pollPc = "threw"
           THEN /\ results' = [results EXCEPT ![r] =
                                 Append(@, Caught(action, ThrownMessage))]
                /\ idx' = [idx EXCEPT ![r] = AfterCatch(@, Len(plan[r]))]
                /\ pc' = [pc EXCEPT ![r] = "exec"]
                /\ UNCHANGED inflight
           ELSE /\ results' = [results EXCEPT ![r] =
                                 Append(@, Handled(action,
                                                   [threw |-> FALSE, data |-> pollResult],
                                                   clock))]
                /\ inflight' = [inflight EXCEPT ![r] = @ \cup {idx[r]}]
                /\ pc' = [pc EXCEPT ![r] = "pause"]
                /\ UNCHANGED idx
    /\ origins' = [origins EXCEPT ![r] = Append(@, idx[r])]
    /\ pollPc' = "off"
    /\ UNCHANGED <<httpVars, unitVars, request, browser, closeCalls, stages, screenshots, plan,
                   attempts, dispatched, verification, aiCalls, outcome, clock,
                   startTime, wakeAt, pageText, changedAt, lastRead, readAt, pollResult>>

\* the plan of the IP scenario
IpPlan ==
    <<Action("wait", "#ipv4-head", "visible"), Action("extract", "#ipv4-head", "text")>>

\* executeActions is entered with the plan; the address is not shown yet
InitIp ==
    /\ Entered([instructions |-> "find the IP address",
                options |-> [screenshots |-> FALSE]], IpPlan)
    /\ idx = [r \in Runs |-> IF r = 1 THEN 1 ELSE 0]
    /\ attempts = [r \in Runs |-> IF r = 1 THEN [i \in 1..Len(IpPlan) |-> 0] ELSE <<>>]
    /\ results = [r \in Runs |-> <<>>]
    /\ origins = [r \in Runs |-> <<>>]
    /\ dispatched = [r \in Runs |-> <<>>]

NextIp ==
    \/ ActDirect(1)
    \/ PollStart(1)
    \/ PollCheck
    \/ PollRead
    \/ PollWake
    \/ Tick
    \/ PageUpdate
    \/ PollReturn(1)
    \/ Pause(1)
    \/ Verify(1)

SpecIp == InitIp /\ [][NextIp]_vars

\* ------------------------------------ the two ways of a text extract
\* a polled extract followed by an extract read once
ExtractPlan ==
    <<Action("extract", "#ipv4-head", "text"), Action("extract", "h1", "text")>>

InitExtract ==
    /\ Entered([instructions |-> "sign up", options |-> [screenshots |-> FALSE]],
               ExtractPlan)
    /\ idx = [r \in Runs |-> IF r = 1 THEN 1 ELSE 0]
    /\ attempts = [r \in Runs |-> IF r = 1 THEN [i \in 1..Len(ExtractPlan) |-> 0] ELSE <<>>]
    /\ results = [r \in Runs |-> <<>>]
    /\ origins = [r \in Runs |-> <<>>]
    /\ dispatched = [r \in Runs |-> <<>>]

NextExtract ==
    \/ ActDirect(1)
    \/ PollStart(1)
    \/ PollCheck
    \/ PollRead
    \/ PollWake
    \/ Tick
    \/ PageUpdate
    \/ PollReturn(1)
    \/ Pause(1)

SpecExtract == InitExtract /\ [][NextExtract]_vars

\* ------------------------------------------- a whole run with its poller
\* the plans: none, one that polls, and a click before and after a poll
LivePlans ==
    { <<>>,
      <<Action("extract", "#ipv4-head", "text")>>,
      <<Action("click", "#go", ""), Action("extract", "#ipv4-head", "text"),
        Action("click", "#go", "")>> }
LiveRequest == [instructions |-> "sign up", options |-> [screenshots |-> FALSE]]

\* the timer of the poller's wait fires: the clock has reached its due time
\* (the least the clock can have advanced when waitForTimeout returns)
TimerDue ==
    /\ pollPc = "wait"
    /\ clock < wakeAt
    /\ clock' = wakeAt
    /\ UNCHANGED <<httpVars, runVars, unitVars, pollPc, startTime, wakeAt, pageText,
                   changedAt, lastRead, readAt, pollResult>>

\* the steps of the program: each one is an operation that returns or fails
LiveStep ==
    \/ Launch(1)
    \/ NewPage(1)
    \/ Goto(1)
    \/ InitialShot(1)
    \/ Analyze(1)
    \/ Plan(1, LivePlans)
    \/ ActDirect(1)
    \/ PollStart(1)
    \/ PollCheck
    \/ PollRead
    \/ PollWake
    \/ PollReturn(1)
    \/ Pause(1)
    \/ Verify(1)
    \/ FinalShot(1)
    \/ BuildReport(1)
    \/ Finally(1)
    \/ Settle(1)

NextLive ==
    \/ Submit(1, LiveRequest)
    \/ LiveStep
    \/ TimerDue
    \/ PageUpdate

\* every operation the run awaits returns or fails, and timers fire; the
\* client and the page's script are under no obligation
SpecLive == Init /\ [][NextLive]_vars /\ WF_vars(LiveStep) /\ WF_vars(TimerDue)

\* --------------------------------------------- the settle wait on its own
\* a request with some options.waitTime has navigated
InitSettle ==
    /\ InitHttp
    /\ InitRuns
    /\ PollIdle
    /\ AddrIdle
    /\ waitTime \in WaitTimes
    /\ waited = -1

\* await page.waitForTimeout((options.waitTime || 10) * 1000)
SettleWait ==
    /\ waited = -1
    /\ waited' = SettleDelay(waitTime)
    /\ UNCHANGED <<httpVars, runVars, pollVars, addrVars, waitTime>>

NextSettle == SettleWait

SpecSettle == InitSettle /\ [][NextSettle]_vars

\* ------------------------------------------------- the address validator
\* the groups candidates are made of: decimal ones in and out of range, with
\* a leading zero, too long, with a letter, empty
DecimalGroups ==
    { <<"0">>, <<"1">>, <<"1", "9", "2">>, <<"1", "6", "8">>, <<"2", "5", "5">>,
      <<"2", "5", "6">>, <<"9", "9", "9">>, <<"0", "1">>, <<"0", "0", "1", "2">>,
      <<"1", "a">>, <<>> }
\* hexadecimal ones of 1 to 4 digits, one of 5, one with another letter, empty
HexGroups ==
    { <<"2", "0", "0", "1">>, <<"d", "b", "8">>, <<"f", "F", "0", "0">>,
      <<"0", "d", "b", "8", "0">>, <<"g">>, <<>> }
GoodGroups == {<<"1">>, <<"0", "d", "b", "8">>}

\* the strings of the validator's specification, by separator and groups
Candidates ==
    [sep : {".", ":"}, pieces : [1..4 -> DecimalGroups]]
      \cup [sep : {".", ":"}, pieces : [1..8 -> {<<"1">>, <<"2", "0", "0", "1">>, <<"g">>}]]
      \cup [sep : {".", ":"},
            pieces : UNION {[1..n -> GoodGroups] :
                              n \in ((4 - MaxExtraGroups)..(4 + MaxExtraGroups))
                                      \cup ((8 - MaxExtraGroups)..(8 + MaxExtraGroups))}]
      \cup [sep : {":"}, pieces : [1..4 -> HexGroups]]
      \cup {[sep |-> ":", pieces |-> <<<<"2", "0", "0", "1">>, <<"0", "d", "b", "8">>,
                                        <<"0", "0", "0", "0">>, <<"0", "0", "0", "0">>,
                                        <<"0", "0", "0", "0">>, <<"f", "f", "0", "0">>,
                                        <<"0", "0", "4", "2">>, <<"8", "3", "2", "9">>>>]}

\* the string: its groups with the separator between them
RECURSIVE Join(_, _)
Join(pieces, sep) ==
    IF pieces = <<>> THEN <<>>
    ELSE IF Len(pieces) = 1 THEN pieces[1]
    ELSE pieces[1] \o <<sep>> \o Join(Tail(pieces), sep)

\* a string reaches the validator
InitAddr ==
    /\ InitHttp
    /\ InitRuns
    /\ PollIdle
    /\ candidate \in Candidates
    /\ isValid = "none"
    /\ WaitIdle

\* ipRegex.ipv4.test(ipText) || ipRegex.ipv6.test(ipText)
Validate ==
    /\ isValid = "none"
    /\ LET ipText == Join(candidate.pieces, candidate.sep)
       IN  isValid' = IF Ipv4Test(ipText) \/ Ipv6Test(ipText) THEN "valid" ELSE "invalid"
    /\ UNCHANGED <<httpVars, runVars, pollVars, candidate, waitVars>>

NextAddr == Validate

SpecAddr == InitAddr /\ [][NextAddr]_vars

\* ------------------------------------------------------- concurrent runs
\* two submissions, each with a plan of one screenshot action
Pair == {1, 2}
TwoRequest == [instructions |-> "take a screenshot", options |-> [screenshots |-> FALSE]]
TwoPlans == {<<Action("screenshot", "page", "")>>}

\* one step of one of the runs
TwoStep(r) ==
    \/ Launch(r)
    \/ NewPage(r)
    \/ Goto(r)
    \/ InitialShot(r)
    \/ Analyze(r)
    \/ Plan(r, TwoPlans)
    \/ Act(r)
    \/ Pause(r)
    \/ Verify(r)
    \/ FinalShot(r)
    \/ BuildReport(r)
    \/ Finally(r)
    \/ Settle(r)

\* the event loop interleaves the awaits of the two runs
NextTwo ==
    \/ \E r \in Pair : Submit(r, TwoRequest)
    \/ \E r \in Pair : TwoStep(r)
    \/ Elapse

SpecTwo == Init /\ [][NextTwo]_vars

\* ============================================================== properties
\* ------------------------------------------------------------ executeActions
\* C1: when executeActions has returned, the result sequence has exactly as
\* many entries as the plan has actions, and the i-th result refers to the
\* i-th action of the plan, whatever happened to each action: it succeeded,
\* something was thrown while it was handled (the pause after it included),
\* or its type is unknown.
C1_OneResultPerAction ==
    \A r \in Runs :
        ExecutionOver(pc[r], idx[r], Len(plan[r])) =>
            /\ Len(results[r]) = Len(plan[r])
            /\ \A i \in 1..Len(results[r]) :
                  /\ origins[r][i] = i
                  /\ results[r][i].action = plan[r][i]

\* C3: when executeActions has returned, every action of the plan has been
\* attempted, exactly once, and has a result of its own in the log, whether
\* or not an earlier action failed.
C3_FailureDoesNotStopLaterActions ==
    \A r \in Runs :
        ExecutionOver(pc[r], idx[r], Len(plan[r])) =>
            \A i \in 1..Len(plan[r]) :
                /\ attempts[r][i] = 1
                /\ \E k \in 1..Len(results[r]) :
                      /\ origins[r][k] = i
                      /\ results[r][k].action = plan[r][i]

\* a plan of two actions has been executed: the first one failed before its
\* pause, the second one was attempted after it and succeeded
C3_Witness ==
    /\ ExecutionOver(pc[1], idx[1], Len(plan[1]))
    /\ Len(plan[1]) = 2
    /\ Len(results[1]) = 2
    /\ results[1][1].status = "failed"
    /\ origins[1] = <<1, 2>>
    /\ attempts[1][2] = 1
    /\ results[1][2].status = "success"

\* ---------------------------------------------------------------- runQATest
\* the elements of a sequence
Range(seq) == {seq[i] : i \in 1..Len(seq)}

\* the stages of a run without its teardown
StagesRun(r) == SelectSeq(stages[r], LAMBDA s : s # "teardown")

\* the place of a stage in the pipeline
Rank(stage) == CHOOSE k \in 1..Len(StageOrder) : StageOrder[k] = stage

\* C2: browser.close is called at most once per run, and when runQATest
\* settles it has been called exactly once if the browser was launched,
\* whatever the exit path, and the browser is not left open.
C2_BrowserClosedExactlyOnce ==
    \A r \in Runs :
        /\ closeCalls[r] <= 1
        /\ pc[r] \in {"settle", "done"} =>
              /\ closeCalls[r] = IF HasBrowser(browser[r]) THEN 1 ELSE 0
              /\ browser[r] # "open"

\* a run whose planning call failed has settled with its browser closed once
C2_Witness ==
    /\ pc[1] = "done"
    /\ outcome[1].kind = "rejected"
    /\ StagesRun(1) = <<"open", "snapshot", "plan">>
    /\ browser[1] = "closed"
    /\ closeCalls[1] = 1

\* C4: a lookup of a submitted identifier answers with the "running"
\* placeholder, with a complete report whose status is success or failed, or
\* with an error record whose status is "error"; a lookup of an identifier
\* that was never submitted answers with the not-found body, which is not an
\* error record.
C4_LookupAnswers ==
    response.route = "GET" =>
        IF response.known
        THEN /\ response.code = 200
             /\ "status" \in DOMAIN response.body
             /\ \/ response.body = RunningRecord
                \/ /\ response.body.status \in {"success", "failed"}
                   /\ DOMAIN response.body =
                        {"instructions", "status", "message", "findings",
                         "stepsPerformed", "successRate", "screenshots"}
                \/ /\ response.body.status = "error"
                   /\ DOMAIN response.body = {"status", "message", "error", "stack"}
        ELSE /\ response.code = 404
             /\ response.body =
                  [error |-> "Results not found for ID", analysisId |-> response.id]

\* a lookup of a submitted run has answered with an error record
C4_Witness ==
    /\ response.route = "GET"
    /\ response.known
    /\ response.body.status = "error"
    /\ response.body.message = "Navigation timeout of 30000 ms exceeded"

\* the stages a run has started when it fails with the message, for the
\* failures before the execution of the plan
StagesAtFailure(message) ==
    CASE message = "ARCADE_AI_API_KEY is not set in environment variables" -> {<<>>}
      [] message = "Failed to launch the browser process" -> {<<"open">>}
      [] message = "Protocol error: Target closed" -> {<<"open">>}
      [] message = "Navigation timeout of 30000 ms exceeded" -> {<<"open">>}
      [] message = "Failed to take screenshot: " \o ThrownMessage -> {<<"open">>}
      [] message = "Page analysis failed: " \o ThrownMessage -> {<<"open", "snapshot">>}
      [] OTHER -> {<<"open", "snapshot", "plan">>}

\* C8: a run that failed at a stage before the execution of its plan has
\* started no later stage: it has no plan and no action result, it made no
\* verification, it made the planning call at most once (exactly once when
\* planning is what failed), and once it has settled its record in the
\* registry is an error record with the failure's message.
C8_FatalFailureAborts ==
    \A r \in Runs :
        (outcome[r].kind = "rejected" /\ "verify" \notin Range(stages[r])) =>
            /\ StagesRun(r) \in StagesAtFailure(outcome[r].message)
            /\ plan[r] = <<>> /\ results[r] = <<>> /\ attempts[r] = <<>>
            /\ verification[r] = NoVerdict
            /\ aiCalls[r].verify = 0
            /\ aiCalls[r].plan = IF "plan" \in Range(stages[r]) THEN 1 ELSE 0
            /\ pc[r] = "done" =>
                  /\ resultsStore[r].status = "error"
                  /\ resultsStore[r].message = outcome[r].message

\* a run whose planning call failed has settled with an error record
C8_Witness ==
    /\ pc[1] = "done"
    /\ StagesRun(1) = <<"open", "snapshot", "plan">>
    /\ aiCalls[1] = [plan |-> 1, verify |-> 0]
    /\ resultsStore[1].status = "error"
    /\ resultsStore[1].message =
          "Failed to process test instructions with Arcade AI: "
            \o "Request failed with status code 500"

\* the failures that can follow the verification: the final screenshot and
\* the reads of the page for the report
AfterVerifyFailures ==
    {"Failed to take screenshot: " \o ThrownMessage, "Execution context was destroyed"}

\* C9: a failing action or a failure inside verification never rejects the
\* run: a run that has started the execution of its plan is rejected only by
\* a failure after the verification, and otherwise it settles with a
\* complete report of status success or failed that holds every action result.
C9_NonFatalFailuresAreReported ==
    \A r \in Runs :
        /\ (outcome[r].kind = "rejected" /\ "execute" \in Range(stages[r])) =>
              /\ "verify" \in Range(stages[r])
              /\ ~verification[r].threw
              /\ outcome[r].message \in AfterVerifyFailures
        /\ (pc[r] = "done" /\ outcome[r].kind = "resolved") =>
              /\ resultsStore[r] = outcome[r].report
              /\ DOMAIN resultsStore[r] =
                    {"instructions", "status", "message", "findings",
                     "stepsPerformed", "successRate", "screenshots"}
              /\ resultsStore[r].status \in {"success", "failed"}
              /\ resultsStore[r].findings = results[r]
              /\ resultsStore[r].stepsPerformed = Len(results[r])
              /\ Range(origins[r]) = 1..Len(plan[r])
              /\ verification[r].branch = 0 => resultsStore[r].status = "failed"

\* a run with a failed action and an exception inside verification has
\* settled with a report of status failed
C9_Witness ==
    /\ pc[1] = "done"
    /\ outcome[1].kind = "resolved"
    /\ resultsStore[1].status = "failed"
    /\ verification[1].branch = 0
    /\ "verify" \in Range(stages[1])
    /\ \E i \in 1..Len(results[1]) : results[1][i].status = "failed"
    /\ resultsStore[1].findings = results[1]

\* C10: the stages of a run are started in the order open, snapshot, plan,
\* execute, verify, teardown, each one after the ones before it and once; at
\* most one action is being handled at a time, none outside the execution
\* stage, and verification starts when every action has been attempted; the
\* planning call is made once by a run that reaches planning.
C10_StagesInOrder ==
    \A r \in Runs :
        /\ \E k \in 0..(Len(StageOrder) - 1) : StagesRun(r) = SubSeq(StageOrder, 1, k)
        /\ \A i, j \in 1..Len(stages[r]) :
              i < j => Rank(stages[r][i]) < Rank(stages[r][j])
        /\ Cardinality(inflight[r]) <= 1
        /\ inflight[r] # {} =>
              /\ pc[r] = "pause"
              /\ inflight[r] = {idx[r]}
              /\ "verify" \notin Range(stages[r])
        /\ "verify" \in Range(stages[r]) =>
              \A i \in 1..Len(plan[r]) : attempts[r][i] = 1
        /\ aiCalls[r].plan = IF "plan" \in Range(stages[r]) THEN 1 ELSE 0

\* a run with a plan of two actions has gone through every stage
C10_Witness ==
    /\ pc[1] = "done"
    /\ outcome[1].kind = "resolved"
    /\ stages[1] = StageOrder
    /\ Len(plan[1]) = 2
    /\ \A i \in 1..2 : attempts[1][i] = 1

\* ------------------------------------------------------------- verifyOutcome
\* what can be thrown inside verifyOutcome: by a read of the page, by the
\* string method called on extracted data that is an array, by the call of
\* the reasoning service
VerifyFaults ==
    {ThrownMessage, "ipData.data.replace is not a function",
     "Request failed with status code 500"}

\* C5: verifyOutcome never throws: once it has been awaited the run holds a
\* verification result and has gone on towards its report, no rejection of
\* the run comes from the verification, and an exception raised while
\* verifying gives a result with success = false whose message is
\* "Verification failed: " followed by the exception's message.
C5_VerificationNeverThrows ==
    \A r \in Runs :
        "verify" \in Range(stages[r]) =>
            /\ ~verification[r].threw
            /\ pc[r] \in {"final", "report", "finally", "settle", "done"}
            /\ pc[r] = "final" => outcome[r] = Pending
            /\ outcome[r].kind = "rejected" => outcome[r].message \in AfterVerifyFailures
            /\ verification[r].branch = 0 =>
                  /\ ~verification[r].success
                  /\ verification[r].message \in
                        {"Verification failed: " \o m : m \in VerifyFaults}

\* the extracted data was an array where the "ip address" branch expects a
\* string: the exception became a failed verification and the run goes on
C5_Witness ==
    /\ pc[1] = "final"
    /\ outcome[1] = Pending
    /\ ~verification[1].success
    /\ verification[1].message =
          "Verification failed: ipData.data.replace is not a function"

\* the condition under which heuristic k is the one to decide
Applies(k, instructions, actionResults, body) ==
    CASE k = 1 -> Mentions(instructions, "ip address")
      [] k = 2 -> Mentions(instructions, "search")
      [] k = 3 -> Mentions(instructions, "screenshot")
      [] k = 4 -> AllExtracted(ResultsOfType(actionResults, "extract"))
      [] k = 5 -> BodyHas(body, successIndicators) \/ BodyHas(body, errorIndicators)
      [] OTHER -> TRUE

\* the first heuristic that applies
FirstApplicable(instructions, actionResults, body) ==
    CHOOSE k \in 1..6 :
        /\ Applies(k, instructions, actionResults, body)
        /\ \A j \in 1..(k - 1) : ~Applies(j, instructions, actionResults, body)

\* C7: the verification result comes from the first heuristic that applies,
\* in the order "ip address", "search", "screenshot", all extractions
\* succeeded, page-text indicators, reasoning service, and the three keyword
\* heuristics decide alone: instructions with both "ip address" and "search"
\* get the verdict of the IP-address branch whatever the search results are.
C7_FirstApplicableHeuristicDecides ==
    \A r \in Runs :
        ("verify" \in Range(stages[r]) /\ verification[r].branch # 0) =>
            LET v == verification[r]
                extractResults == ResultsOfType(results[r], "extract")
                screenshotResults == ResultsOfType(results[r], "screenshot")
                decided == [success |-> v.success, message |-> v.message]
                Of(w) == [success |-> w.success, message |-> w.message]
            IN  /\ v.branch = FirstApplicable(request[r].instructions, results[r], v.body)
                /\ v.branch = 1 => decided = Of(IpBranch(extractResults))
                /\ v.branch = 2 => decided = Of(SearchBranch(extractResults))
                /\ v.branch = 3 => decided = Of(ScreenshotBranch(screenshotResults))
                /\ v.asked = (v.branch = 6)

\* instructions with "search" and "ip address", an extracted address and no
\* search result: the verification succeeded by the IP-address branch
C7_Witness ==
    /\ "verify" \in Range(stages[1])
    /\ Mentions(request[1].instructions, "search")
    /\ Mentions(request[1].instructions, "ip address")
    /\ verification[1].branch = 1
    /\ verification[1].success
    /\ ~SearchBranch(ResultsOfType(results[1], "extract")).success

\* ------------------------------------------------------------ pollForContent
\* a text the poller is to return: non-empty and without "Detecting..."
Settled(content) ==
    /\ content.kind = "text"
    /\ content.text # ""
    /\ ~TextIncludes(content.text, "Detecting...")

\* C6 as stated: pollForContent returns an address whenever the text changes
\* to one before the timeout, and null, after the full timeout, when it never
\* changes.
C6_ChangeBeforeTimeoutIsReturned ==
    pollPc = "done" =>
        /\ (changedAt >= 0 /\ changedAt - startTime < PollTimeoutMs) =>
              pollResult = pageText
        /\ changedAt < 0 =>
              pollResult = NullData /\ clock - startTime >= PollTimeoutMs

\* C6: pollForContent returns the first read that is non-empty and does not
\* contain "Detecting...", as soon as it makes it; it returns null only once
\* the timeout has elapsed in full and only if none of its reads was such a
\* text, in which case a change of the text, if there was one, came no
\* earlier than the last read was made; the timeout ends the loop with a
\* returned null.
C6_FirstSettledReadOrNullAtTimeout ==
    /\ Settled(lastRead) => (pollPc = "done" /\ pollResult = lastRead)
    /\ pollPc = "done" =>
          \/ /\ Settled(pollResult)
             /\ pollResult = lastRead
             /\ pollResult = pageText
             /\ changedAt >= 0 /\ changedAt <= readAt
          \/ /\ pollResult = NullData
             /\ clock - startTime >= PollTimeoutMs
             /\ ~Settled(lastRead)
             /\ changedAt >= 0 => changedAt >= readAt
    /\ pollPc # "done" => pollResult = NoData
    /\ pollPc = "threw" => ~Settled(lastRead)

\* the text went from "Detecting..." to an address while the poller waited,
\* and a later read returned it
C6_Witness ==
    /\ pollPc = "done"
    /\ pollResult = TextData("203.0.113.5")
    /\ changedAt > 0
    /\ readAt > changedAt
    /\ clock - startTime < PollTimeoutMs

\* ----------------------------------------------------------------- registry
\* a terminal record: a report or an error record
Terminal(record) ==
    /\ "status" \in DOMAIN record
    /\ record.status \in {"success", "failed", "error"}

\* what one step may do to the record of run r
RecordStep(r) ==
    /\ r \in DOMAIN resultsStore => r \in DOMAIN resultsStore'
    /\ (r \notin DOMAIN resultsStore /\ r \in DOMAIN resultsStore') =>
          /\ resultsStore'[r] = RunningRecord
          /\ response' = [route |-> "POST", id |-> r, code |-> 200,
                          body |-> [analysisId |-> r, status |-> "running",
                                    message |-> "Analysis started"]]
    /\ (r \in DOMAIN resultsStore /\ resultsStore'[r] # resultsStore[r]) =>
          /\ resultsStore[r] = RunningRecord
          /\ pc[r] = "settle" /\ pc'[r] = "done"
    /\ (pc[r] = "settle" /\ pc'[r] = "done") =>
          /\ Terminal(resultsStore'[r])
          /\ resultsStore'[r] =
                IF outcome[r].kind = "resolved" THEN outcome[r].report
                ELSE ErrorRecord(outcome[r].message)

\* C11: the placeholder is in the registry when the identifier is answered;
\* the record of a run is the placeholder until the run settles, changes
\* exactly once, at the settling, to the report or to an error record, and
\* never changes afterwards.
C11_RecordChangesOnce ==
    /\ [](\A r \in submitted :
            /\ r \in DOMAIN resultsStore
            /\ pc[r] # "done" => resultsStore[r] = RunningRecord
            /\ pc[r] = "done" => Terminal(resultsStore[r]))
    /\ [](response.route = "POST" => response.id \in DOMAIN resultsStore)
    /\ [][\A r \in Runs : RecordStep(r)]_vars

\* a run has settled with a report and a later lookup has returned it
C11_Witness ==
    /\ pc[1] = "done"
    /\ resultsStore[1].status = "success"
    /\ response.route = "GET" /\ response.known
    /\ response.body = resultsStore[1]

\* ----------------------------------------------------------------- Evidence
\* s is t with nothing or one entry added at the end
GrowsTo(s, t) ==
    /\ Len(t) \in {Len(s), Len(s) + 1}
    /\ SubSeq(t, 1, Len(s)) = s

\* the results of the screenshot actions that captured their screenshot
Captured(r) ==
    SelectSeq(results[r],
              LAMBDA x : x.action.type = "screenshot" /\ x.status = "success")

\* the identifiers the Evidence of run r is to hold, in order, once the step
\* of the initial screenshot is over
EvidenceIds(r) ==
    LET on == request[r].options.screenshots
        first == IF on THEN <<"initial">> ELSE <<>>
        middle == [k \in 1..Len(Captured(r)) |->
                     IF Captured(r)[k].action.value # ""
                     THEN Captured(r)[k].action.value ELSE "action"]
        last == IF on /\ pc[r] = "report" THEN <<"final">> ELSE <<>>
    IN  first \o middle \o last

\* C12: the Evidence sequence of a run only grows, by one entry at its end at
\* a time; it holds, in this order, the initial capture when screenshots are
\* enabled, one entry per screenshot action whose capture succeeded, in plan
\* order and with the path that action's result carries, and the final
\* capture when screenshots are enabled; its timestamps never decrease; with
\* screenshots disabled only the initial and the final entry are missing.
C12_EvidenceAppendOnly ==
    /\ [][\A r \in Runs : GrowsTo(screenshots[r], screenshots'[r])]_vars
    /\ [](\A r \in Runs :
            (pc[r] \in {"analyze", "plan", "exec", "pause", "final", "report"}
               /\ outcome[r] = Pending) =>
              /\ [k \in 1..Len(screenshots[r]) |-> screenshots[r][k].id] = EvidenceIds(r)
              /\ \A i, j \in 1..Len(screenshots[r]) :
                    i < j => screenshots[r][i].timestamp <= screenshots[r][j].timestamp
              /\ \A k \in 1..Len(Captured(r)) :
                    \E i \in 1..Len(screenshots[r]) :
                        TextData(screenshots[r][i].path) = Captured(r)[k].data
              /\ \A i \in 1..Len(screenshots[r]) :
                    screenshots[r][i].path =
                        ScreenshotPath(screenshots[r][i].id, screenshots[r][i].timestamp))

\* screenshots enabled, a plan with a screenshot action: the Evidence holds the
\* initial capture, the action's and the final one, taken at three times
C12_Witness ==
    /\ pc[1] = "report"
    /\ Len(screenshots[1]) = 3
    /\ screenshots[1][1].id = "initial"
    /\ screenshots[1][2].id = "loaded_page"
    /\ screenshots[1][3].id = "final"
    /\ screenshots[1][1].timestamp < screenshots[1][2].timestamp
    /\ screenshots[1][2].timestamp < screenshots[1][3].timestamp

\* ------------------------------------------------------------ the IP scenario
\* the scenario's conclusion: the extract result is a success with the
\* address, and the verification succeeded with a message that has it
IpScenarioSucceeds(r) ==
    /\ \E k \in 1..Len(results[r]) :
          /\ results[r][k].action = IpPlan[2]
          /\ results[r][k].status = "success"
          /\ DataOf(results[r][k]) = TextData("203.0.113.5")
    /\ verification[r].success
    /\ verification[r].branch = 1
    /\ verification[r].message = "Test successful: IP address 203.0.113.5 extracted"

ListExtracts(r) ==
    SelectSeq(results[r],
              LAMBDA x : x.action.type = "extract" /\ x.action.value = "list")

\* a result that carries a non-empty list
HasItems(x) == DataOf(x).kind = "list" /\ DataOf(x).items > 0

\* the search branch decided the verification of run r
SearchDecided(r) == "verify" \in Range(stages[r]) /\ verification[r].branch = 2

\* C14 as stated: in the search branch verification succeeds if and only if
\* some list-style extract result with a non-empty list exists.
C14_SuccessIffSomeListNonEmpty ==
    \A r \in Runs :
        SearchDecided(r) =>
            (verification[r].success <=>
                \E k \in 1..Len(ListExtracts(r)) : HasItems(ListExtracts(r)[k]))

\* C14: in the search branch verification succeeds if and only if the first
\* list-style extract result of the log carries a non-empty list, and
\* otherwise its message is "Test failed: No search results extracted"; a
\* list extract that matched zero elements has a failed result, and when it
\* is the first list-style result the verification fails.
C14_SuccessIffFirstListNonEmpty ==
    \A r \in Runs :
        SearchDecided(r) =>
            /\ Mentions(request[r].instructions, "search")
            /\ ~Mentions(request[r].instructions, "ip address")
            /\ verification[r].success <=>
                  (Len(ListExtracts(r)) > 0 /\ HasItems(ListExtracts(r)[1]))
            /\ ~verification[r].success =>
                  verification[r].message = "Test failed: No search results extracted"
            /\ verification[r].success =>
                  verification[r].message =
                      "Test successful: " \o ToString(DataOf(ListExtracts(r)[1]).items)
                        \o " search results extracted"
            /\ \A k \in 1..Len(ListExtracts(r)) :
                  DataOf(ListExtracts(r)[k]).kind = "list" =>
                      (ListExtracts(r)[k].status = "failed"
                          <=> DataOf(ListExtracts(r)[k]).items = 0)

\* the first list extract matched nothing and has a failed result, a later
\* one carries a list: the verification failed with the message
C14_Witness ==
    /\ SearchDecided(1)
    /\ Len(ListExtracts(1)) = 2
    /\ ListExtracts(1)[1].status = "failed"
    /\ DataOf(ListExtracts(1)[1]) = ListData(0)
    /\ HasItems(ListExtracts(1)[2])
    /\ ~verification[1].success
    /\ verification[1].message = "Test failed: No search results extracted"

\* --------------------------------------------------------------- validator
\* the number a string of decimal digits denotes
DigitValue ==
    ("0" :> 0) @@ ("1" :> 1) @@ ("2" :> 2) @@ ("3" :> 3) @@ ("4" :> 4)
      @@ ("5" :> 5) @@ ("6" :> 6) @@ ("7" :> 7) @@ ("8" :> 8) @@ ("9" :> 9)
RECURSIVE DecimalValue(_)
DecimalValue(g) ==
    IF g = <<>> THEN 0
    ELSE 10 * DecimalValue(SubSeq(g, 1, Len(g) - 1)) + DigitValue[g[Len(g)]]

\* a decimal octet: 1 to 3 decimal digits denoting a number in 0..255
IsOctet(g) ==
    /\ Len(g) \in 1..3
    /\ \A i \in 1..Len(g) : g[i] \in DOMAIN DigitValue
    /\ DecimalValue(g) <= 255

\* a group of 1 to 4 hexadecimal digits
IsHexGroup(g) ==
    /\ Len(g) \in 1..4
    /\ \A i \in 1..Len(g) :
          g[i] \in DOMAIN DigitValue
                    \cup {"a", "b", "c", "d", "e", "f", "A", "B", "C", "D", "E", "F"}

\* the strict forms
StrictAddress(c) ==
    \/ c.sep = "." /\ Len(c.pieces) = 4 /\ \A i \in 1..4 : IsOctet(c.pieces[i])
    \/ c.sep = ":" /\ Len(c.pieces) = 8 /\ \A i \in 1..8 : IsHexGroup(c.pieces[i])

\* C15: the validator accepts a string if and only if it is four decimal
\* octets in 0..255 separated by dots or eight groups of 1 to 4 hexadecimal
\* digits separated by colons.
C15_ValidatorAcceptsStrictForms ==
    isValid # "none" => (isValid = "valid" <=> StrictAddress(candidate))

\* "192.168.1.1" has been accepted
C15_Witness ==
    /\ candidate = [sep |-> ".",
                    pieces |-> <<<<"1", "9", "2">>, <<"1", "6", "8">>, <<"1">>, <<"1">>>>]
    /\ isValid = "valid"

\* ---------------------------------------------------------- independence
\* the registry's record of run r
RecordOf(r) == IF r \in DOMAIN resultsStore THEN resultsStore[r] ELSE [status |-> "absent"]

\* everything that belongs to run r: its session, its position, its plan,
\* results and Evidence, its verdict, and its record in the registry
RunState(r) ==
    <<pc[r], request[r], browser[r], closeCalls[r], stages[r], screenshots[r],
      plan[r], idx[r], inflight[r], attempts[r], results[r], origins[r],
      dispatched[r],
      verification[r], aiCalls[r], outcome[r], RecordOf(r), r \in submitted>>

ListedTypes ==
    {"click", "fill", "select", "submit", "extract", "wait", "navigate", "screenshot"}

\* the positions in the log of the results of the action at position i
ResultsAt(r, i) == {k \in 1..Len(results[r]) : origins[r][k] = i}

IpExtracts(r) ==
    SelectSeq(results[r],
              LAMBDA x : x.action.type = "extract" /\ TextIncludes(x.action.target, "ip"))

\* a result that carries a string which is a valid address once the label is
\* stripped and the rest trimmed
HasAddress(x) == DataOf(x).kind = "text" /\ DataOf(x).text \in ValidAddresses

\* the verification of run r read the page and went into the "ip address"
\* branch
IpDecided(r) ==
    /\ "verify" \in Range(stages[r])
    /\ pc[r] = "final"
    /\ Mentions(request[r].instructions, "ip address")
    /\ verification[r].message # "Verification failed: " \o ThrownMessage

\* as stated: in the "ip address" branch verification succeeds if and only if
\* some extract result whose target contains "ip" carries a valid address
C18_SuccessIffSomeAddressValid ==
    \A r \in Runs :
        IpDecided(r) =>
            (verification[r].success <=>
                \E k \in 1..Len(IpExtracts(r)) : HasAddress(IpExtracts(r)[k]))

\* C18: in the "ip address" branch verification succeeds if and only if the
\* first extract result with data whose target contains "ip" carries a string
\* that is a valid address once the label is stripped; a later result is
\* never looked at. When that first result carries a list the verification
\* fails with the message of the exception, when it carries another string
\* with "is not a valid IP address", and when there is none with "No valid IP
\* address extracted".
C18_SuccessIffFirstAddressValid ==
    \A r \in Runs :
        IpDecided(r) =>
            LET withData == SelectSeq(IpExtracts(r), LAMBDA x : Truthy(DataOf(x)))
            IN  /\ verification[r].success <=>
                      (Len(withData) > 0 /\ HasAddress(withData[1]))
                /\ verification[r].success =>
                      verification[r].message =
                          "Test successful: IP address "
                            \o IpTextOf[DataOf(withData[1]).text] \o " extracted"
                /\ Len(withData) = 0 =>
                      verification[r].message =
                          "Test failed: No valid IP address extracted"
                /\ (Len(withData) > 0 /\ DataOf(withData[1]).kind = "list") =>
                      verification[r].message =
                          "Verification failed: ipData.data.replace is not a function"
                /\ (Len(withData) > 0 /\ DataOf(withData[1]).kind = "text"
                      /\ ~HasAddress(withData[1])) =>
                      verification[r].message =
                          "Test failed: Extracted data '"
                            \o IpTextOf[DataOf(withData[1]).text]
                            \o "' is not a valid IP address"

\* the log holds two extract results of the address element: the first one
\* carries a string that is no address, the second one a labelled valid
\* address; the verification failed on the first
C18_Witness ==
    /\ IpDecided(1)
    /\ Len(IpExtracts(1)) = 2
    /\ DataOf(IpExtracts(1)[1]) = TextData("999.1.1.1")
    /\ DataOf(IpExtracts(1)[2]) = TextData("My Public IPv4: 203.0.113.5")
    /\ ~verification[1].success
    /\ verification[1].message =
          "Test failed: Extracted data '999.1.1.1' is not a valid IP address"

\* ---------------------------------------------------- the screenshot branch
\* the verification of run r has just been decided by the "screenshot"
\* branch; the Evidence is still the one verifyOutcome was called with
ScreenshotDecided(r) == pc[r] = "final" /\ verification[r].branch = 3

\* C19: in the "screenshot" branch verification succeeds if and only if the
\* Evidence sequence of the run holds at least one entry at the time of the
\* verification.
C19_SuccessIffEvidenceExists ==
    \A r \in Runs :
        ScreenshotDecided(r) =>
            /\ Mentions(request[r].instructions, "screenshot")
            /\ ~Mentions(request[r].instructions, "ip address")
            /\ ~Mentions(request[r].instructions, "search")
            /\ verification[r].success <=> Len(screenshots[r]) > 0

\* ------------------------------------------------------------- branch four
\* the extract-type results of run r, in log order
Extracts(r) == SelectSeq(results[r], LAMBDA x : x.action.type = "extract")

\* every extract-type result of run r succeeded and carries data
EveryExtractHasData(r) ==
    \A k \in 1..Len(Extracts(r)) :
        /\ Extracts(r)[k].status = "success"
        /\ DataOf(Extracts(r)[k]).kind \in {"text", "list"}

\* the verification of run r is over and its instructions mention none of the
\* three phrases
PlainVerified(r) ==
    /\ pc[r] = "final"
    /\ ~Mentions(request[r].instructions, "ip address")
    /\ ~Mentions(request[r].instructions, "search")
    /\ ~Mentions(request[r].instructions, "screenshot")

\* the verdict of branch 4, given without the reasoning service
FromBranchFour(r) ==
    /\ verification[r].branch = 4
    /\ verification[r].success
    /\ verification[r].message = "Test successful: All extractions completed"
    /\ ~verification[r].asked
    /\ aiCalls[r].verify = 0

\* as stated: with instructions that mention none of the three phrases, if
\* every extract-type result succeeded with data, the empty set of extract
\* results included, the verdict is the success of branch 4
C20_AllExtractedEvenNoneSucceeds ==
    \A r \in Runs :
        (PlainVerified(r) /\ EveryExtractHasData(r)) => FromBranchFour(r)

\* C20: with instructions that mention none of the three phrases, if the log
\* holds at least one extract-type result and every one of them succeeded
\* with data, the verdict is the success of branch 4, given without the
\* reasoning service, unless reading the page text at the start of the
\* verification failed, which gives a failed verdict; with no extract-type
\* result in the log branch 4 is never taken.
C20_AllOfSomeExtractedSucceeds ==
    \A r \in Runs :
        PlainVerified(r) =>
            /\ (Len(Extracts(r)) > 0 /\ EveryExtractHasData(r)) =>
                  \/ FromBranchFour(r)
                  \/ /\ ~verification[r].success
                     /\ verification[r].message = "Verification failed: " \o ThrownMessage
                     /\ aiCalls[r].verify = 0
            /\ Len(Extracts(r)) = 0 => verification[r].branch # 4
            /\ verification[r].branch = 4 =>
                  (Len(Extracts(r)) > 0 /\ EveryExtractHasData(r))

\* two successful extracts, a text and a list, and instructions without any
\* of the phrases: branch 4 gave the verdict
C20_Witness ==
    /\ PlainVerified(1)
    /\ Len(Extracts(1)) = 2
    /\ DataOf(Extracts(1)[1]).kind = "text"
    /\ DataOf(Extracts(1)[2]).kind = "list"
    /\ EveryExtractHasData(1)
    /\ FromBranchFour(1)

\* ------------------------------------------------------ the reasoning service
\* C21: the reasoning service is called at most twice per run: once for
\* planning, by every run that has reached the planning stage and by no
\* other, and at most once for verification, only when none of the
\* heuristics 1 to 5 applied to what the verification read; when its answer
\* to the verification request parsed, the verification result is the
\* {success, message} pair of that answer.
C21_ServiceCalledAtMostTwice ==
    \A r \in Runs :
        /\ aiCalls[r].plan + aiCalls[r].verify <= 2
        /\ aiCalls[r].plan = IF "plan" \in Range(stages[r]) THEN 1 ELSE 0
        /\ aiCalls[r].verify = IF verification[r].asked THEN 1 ELSE 0
        /\ verification[r].asked =>
              /\ "verify" \in Range(stages[r])
              /\ FirstApplicable(request[r].instructions, results[r],
                                 verification[r].body) = 6
        /\ (verification[r].asked /\ verification[r].reply.parsed) =>
              /\ verification[r].success = verification[r].reply.success
              /\ verification[r].message = verification[r].reply.message
              /\ verification[r].branch = 6
        /\ verification[r].branch = 6 =>
              verification[r].asked /\ verification[r].reply.parsed

\* a run called the service for its plan and again for its verification; the
\* service answered that the outcome differs, and the report of the run
\* carries that answer
C21_Witness ==
    /\ pc[1] = "done"
    /\ aiCalls[1] = [plan |-> 1, verify |-> 1]
    /\ verification[1].reply =
          [parsed |-> TRUE, success |-> FALSE, message |-> "AI: outcome differs"]
    /\ resultsStore[1].status = "failed"
    /\ resultsStore[1].message = "AI: outcome differs"

\* ------------------------------------------------------- the text extracts
\* an extract that is not list-style
IsTextExtract(action) == action.type = "extract" /\ action.value # "list"

\* C22: a text extract whose target contains "ip" is handed to the poller,
\* which returns the first read it accepts and gives up with null only once
\* 30 s have passed since it was called, and any other text extract is read
\* once; the result such an extract pushes has status
\* success if and only if its data is a non-empty string, and failed with
\* null or empty data otherwise; the data of a successful result of a polled
\* target does not contain "Detecting...", and a polled extract that fails
\* without an exception carries null.
C22_TextExtractPolledOrReadOnce ==
    \A r \in Runs :
        /\ \A n \in 1..Len(dispatched[r]) :
              LET action == plan[r][dispatched[r][n].index]
              IN  IsTextExtract(action) =>
                     dispatched[r][n].methods =
                         IF TextIncludes(action.target, "ip")
                         THEN <<"pollForContent">> ELSE <<"evaluate">>
        /\ pc[r] = "poll" =>
              /\ IsTextExtract(plan[r][idx[r]])
              /\ TextIncludes(plan[r][idx[r]].target, "ip")
              /\ (pollPc = "done" /\ pollResult = NullData) =>
                    clock - startTime >= PollTimeoutMs
              /\ (pollPc = "done" /\ pollResult # NullData) =>
                    (pollResult = lastRead /\ PollAccepts(pollResult))
        /\ \A k \in 1..Len(results[r]) :
              LET x == results[r][k]
              IN  (IsTextExtract(x.action) /\ "error" \notin DOMAIN x) =>
                     /\ "data" \in DOMAIN x
                     /\ x.status = "success" <=>
                           (x.data.kind = "text" /\ x.data.text # "")
                     /\ x.status = "failed" <=>
                           (x.data = NullData \/ x.data = TextData(""))
                     /\ TextIncludes(x.action.target, "ip") =>
                           /\ x.status = "success" =>
                                 ~TextIncludes(x.data.text, "Detecting...")
                           /\ x.status = "failed" => x.data = NullData

\* the polled extract returned the address after a read that saw
\* "Detecting...", the extract read once found an empty element: a successful
\* result with the address and a failed one with the empty string
C22_Witness ==
    /\ ExecutionOver(pc[1], idx[1], Len(plan[1]))
    /\ Len(results[1]) = 2
    /\ results[1][1].status = "success"
    /\ results[1][1].data = TextData("203.0.113.5")
    /\ changedAt > 0
    /\ results[1][2].action.target = "h1"
    /\ results[1][2].status = "failed"
    /\ "data" \in DOMAIN results[1][2]
    /\ results[1][2].data = TextData("")

\* ---------------------------------------------------- the screenshot action
\* the handling of a screenshot action of run r pushes a result in this step
ShotHandled(r) ==
    /\ pc[r] = "exec"
    /\ Len(results'[r]) = Len(results[r]) + 1
    /\ results'[r][Len(results'[r])].action.type = "screenshot"

\* C23: the step that handles a screenshot action either pushes a result with
\* status success and appends exactly one Evidence entry, whose id is the
\* value of the action, or "action" without a value, and whose path is the
\* data of the result, or it pushes a failed result with the error and leaves
\* the Evidence as it is; while the plan is executed, the Evidence entries
\* added since its start are as many as the screenshot results with status
\* success.
C23_ScreenshotActionAddsOneEvidence ==
    /\ [][\A r \in Runs :
            ShotHandled(r) =>
                LET x == results'[r][Len(results'[r])]
                    id == IF x.action.value # "" THEN x.action.value ELSE "action"
                IN  IF x.status = "success"
                    THEN /\ Len(screenshots'[r]) = Len(screenshots[r]) + 1
                         /\ SubSeq(screenshots'[r], 1, Len(screenshots[r])) = screenshots[r]
                         /\ screenshots'[r][Len(screenshots'[r])].id = id
                         /\ x.data = TextData(screenshots'[r][Len(screenshots'[r])].path)
                    ELSE /\ x.status = "failed"
                         /\ "error" \in DOMAIN x
                         /\ screenshots'[r] = screenshots[r]]_vars
    /\ [](\A r \in Runs :
            (pc[r] \in {"exec", "pause", "final"} /\ outcome[r] = Pending) =>
                Len(screenshots[r])
                    - (IF request[r].options.screenshots THEN 1 ELSE 0)
                  = Len(Captured(r)))

\* a plan of two screenshot actions has been executed: the capture of the
\* first one failed, the second one, named loaded_page, was captured; the
\* Evidence gained one entry
C23_Witness ==
    /\ ExecutionOver(pc[1], idx[1], Len(plan[1]))
    /\ outcome[1] = Pending
    /\ ~request[1].options.screenshots
    /\ Len(results[1]) = 2
    /\ results[1][1].action.type = "screenshot"
    /\ results[1][1].status = "failed"
    /\ results[1][2].action = Action("screenshot", "page", "loaded_page")
    /\ results[1][2].status = "success"
    /\ Len(screenshots[1]) = 1
    /\ screenshots[1][1].id = "loaded_page"
    /\ results[1][2].data = TextData(screenshots[1][1].path)

\* ------------------------------------------------------ a failing shutdown
\* C24: the finally block leaves what the run settles with as it is, whether
\* browser.close() succeeded or failed: a run whose shutdown failed settles
\* with the report it had built, of the status and message of its
\* verification, or with the error that ended it, never with the error of the
\* shutdown, and its registry record is that report or the error record of
\* that error.
C24_CloseFailureKeepsOutcome ==
    /\ [][\A r \in Runs : pc[r] = "finally" => outcome'[r] = outcome[r]]_vars
    /\ [](\A r \in Runs :
            browser[r] = "closeFailed" =>
                /\ pc[r] \in {"settle", "done"}
                /\ outcome[r].kind \in {"resolved", "rejected"}
                /\ outcome[r].kind = "rejected" => outcome[r].message # CloseError
                /\ outcome[r].kind = "resolved" =>
                      /\ outcome[r].report.message = verification[r].message
                      /\ outcome[r].report.status =
                            IF verification[r].success THEN "success" ELSE "failed"
                /\ pc[r] = "done" =>
                      resultsStore[r] =
                          IF outcome[r].kind = "resolved" THEN outcome[r].report
                          ELSE ErrorRecord(outcome[r].message))

\* the navigation of a run failed and then the shutdown of its browser
\* failed: the registry holds the error of the navigation
C24_Witness ==
    /\ pc[1] = "done"
    /\ browser[1] = "closeFailed"
    /\ closeCalls[1] = 1
    /\ resultsStore[1].status = "error"
    /\ resultsStore[1].message = "Navigation timeout of 30000 ms exceeded"

\* --------------------------------------------------- the missing credential
\* C25: without the credential a submitted run is rejected at once with the
\* configuration error: it launches no browser, opens no page, starts no
\* stage, calls the reasoning service for nothing, makes no call of
\* browser.close(), and when its promise has settled its registry record is
\* the error record of the configuration error; the answer to the submission
\* itself still says "running".
C25_MissingCredentialFailsFirst ==
    ~apiKey =>
        \A r \in Runs :
            /\ browser[r] = "none"
            /\ closeCalls[r] = 0
            /\ stages[r] = <<>>
            /\ aiCalls[r] = [plan |-> 0, verify |-> 0]
            /\ pc[r] \in {"idle", "settle", "done"}
            /\ r \in submitted =>
                  /\ outcome[r] =
                        Rejected("ARCADE_AI_API_KEY is not set in environment variables")
                  /\ pc[r] # "idle"
                  /\ pc[r] = "settle" => resultsStore[r] = RunningRecord
                  /\ pc[r] = "done" =>
                        /\ resultsStore[r].status = "error"
                        /\ resultsStore[r].message =
                              "ARCADE_AI_API_KEY is not set in environment variables"

\* a run submitted without the credential has settled, and a client has
\* looked it up: the answer is the error record
C25_Witness ==
    /\ ~apiKey
    /\ pc[1] = "done"
    /\ browser[1] = "none"
    /\ response.route = "GET"
    /\ response.id = 1
    /\ response.code = 200
    /\ response.body.status = "error"
    /\ response.body.message = "ARCADE_AI_API_KEY is not set in environment variables"

\* -------------------------------------------------------------- termination
\* executeActions of run r is under way
Executing(r) == pc[r] \in {"exec", "pause", "poll"}

\* C26: every run terminates: a run that is executing its plan leaves
\* executeActions, by its return or never by an exception of its own; a
\* poller that was called returns or throws, and once its timeout has passed
\* its next loop test ends it with null; and the registry record of every
\* submitted run eventually is a terminal one.
C26_EveryRunTerminates ==
    /\ \A r \in Runs : Executing(r) ~> ~Executing(r)
    /\ pollPc \in {"check", "read", "wait"} ~> pollPc \in {"done", "threw"}
    /\ \A r \in Runs : (r \in submitted) ~> Terminal(RecordOf(r))
    /\ [][(pollPc = "check" /\ pollPc' # "check"
             /\ clock - startTime >= PollTimeoutMs)
            => (pollPc' = "done" /\ pollResult' = NullData)]_vars
    /\ [](\A r \in Runs : Executing(r) => outcome[r] = Pending)

\* a run whose plan clicked, polled until the timeout and clicked again has
\* settled with a report
C26_Witness ==
    /\ pc[1] = "done"
    /\ Len(plan[1]) = 3
    /\ Len(results[1]) = 3
    /\ results[1][2].status = "failed"
    /\ "data" \in DOMAIN results[1][2]
    /\ results[1][2].data = NullData
    /\ clock >= PollTimeoutMs
    /\ Terminal(resultsStore[1])
    /\ resultsStore[1].status \in {"success", "failed"}

\* ------------------------------------------------------------ the settle wait
\* C27: the settle wait lasts the configured number of seconds times 1000 ms
\* for every configured value, zero included, and 10 000 ms when no value is
\* configured.
C27_DelayIsConfiguredSeconds ==
    waited # -1 =>
        waited = IF waitTime.kind = "number" THEN waitTime.n * 1000 ELSE 10000

\* ------------------------------------------------- after the verification
\* the run r has a verification result and has settled
VerifiedAndDone(r) == pc[r] = "done" /\ "verify" \in Range(stages[r])

\* as stated: a run that has a verification result ends with a report of the
\* status and the message of that result, never with an error record
C28_VerifiedRunEndsWithReport ==
    \A r \in Runs :
        VerifiedAndDone(r) =>
            /\ resultsStore[r].status =
                  IF verification[r].success THEN "success" ELSE "failed"
            /\ resultsStore[r].message = verification[r].message

\* C28: a run that has a verification result ends with a complete report of
\* the status and the message of that result, unless a step after the
\* verification throws: the final capture, taken only when screenshots are
\* enabled, or the reads of the page for the report; then the run is rejected
\* and its record is the error record of that failure.
C28_VerifiedRunReportsUnlessLaterStepThrows ==
    \A r \in Runs :
        VerifiedAndDone(r) =>
            \/ /\ outcome[r].kind = "resolved"
               /\ resultsStore[r] = outcome[r].report
               /\ resultsStore[r].status =
                     IF verification[r].success THEN "success" ELSE "failed"
               /\ resultsStore[r].message = verification[r].message
               /\ resultsStore[r].findings = results[r]
               /\ resultsStore[r].screenshots = screenshots[r]
            \/ /\ outcome[r].kind = "rejected"
               /\ resultsStore[r] = ErrorRecord(outcome[r].message)
               /\ \/ /\ outcome[r].message = "Failed to take screenshot: " \o ThrownMessage
                     /\ request[r].options.screenshots
                  \/ outcome[r].message = "Execution context was destroyed"

\* the verification of a run succeeded, the final capture failed: the record
\* of the run is an error record
C28_Witness ==
    /\ VerifiedAndDone(1)
    /\ verification[1].success
    /\ request[1].options.screenshots
    /\ resultsStore[1].status = "error"
    /\ resultsStore[1].message = "Failed to take screenshot: " \o ThrownMessage

\* ----------------------------------------------------------- the success rate
\* C29: the success rate of every report is a whole percentage between 0% and
\* 100%, the rounded ratio of the results with status success to all the
\* results of the run, the results of an empty plan included.
C29_RateIsWholePercentage ==
    \A r \in Runs :
        outcome[r].kind = "resolved" =>
            LET n == Len(results[r])
                successful == Cardinality({k \in 1..n : results[r][k].status = "success"})
            IN  \E p \in 0..100 :
                    /\ outcome[r].report.successRate = ToString(p) \o "%"
                    /\ n > 0 => (2 * p * n - n <= 200 * successful
                                   /\ 200 * successful < 2 * p * n + n)

\* ------------------------------------------------------ the evidence paths
\* C30: no two captures, of one run or of two runs, have the same storage
\* path.
C30_CapturePathsDistinct ==
    \A r, q \in Runs :
        \A i \in 1..Len(screenshots[r]), j \in 1..Len(screenshots[q]) :
            <<r, i>> # <<q, j>> => screenshots[r][i].path # screenshots[q][j].path

====
